---- MODULE Spec2Model ----
(***************************************************************************)
(* The `using!` method-cascading macro of src/src/lib.rs as a rewriting    *)
(* machine over token trees.                                               *)
(*                                                                         *)
(* A token tree is a record [k, v, ts]:                                    *)
(*   k = "t"    an atomic token (identifier, keyword, punctuation), v its  *)
(*              text;                                                      *)
(*   k = "g"    a delimited group, v its opening delimiter, ts its content;*)
(*   k = "nt"   a captured fragment ($x:expr, $x:pat, $x:ty, $x:stmt): an  *)
(*              opaque token tree once captured, v the fragment kind, ts   *)
(*              the tokens it was parsed from;                             *)
(*   k = "call" a macro invocation still to be expanded, v the macro's     *)
(*              name, ts the tokens between its parentheses.               *)
(* The state is the expansion so far (out), a token stream in which the    *)
(* braces a rule emits are the tokens `{` and `}`; one step expands the    *)
(* leftmost pending invocation by the first rule, in source order, whose   *)
(* matcher accepts its tokens.                                             *)
(***************************************************************************)
EXTENDS Naturals, Integers, Sequences, FiniteSets, TLC

VARIABLES ast, named, out, pos, status, pc, fired

vars == <<ast, named, out, pos, status, pc, fired>>

-----------------------------------------------------------------------------
(* Token trees *)

Tok(v) == [k |-> "t", v |-> v, ts |-> <<>>]
Grp(d, ts) == [k |-> "g", v |-> d, ts |-> ts]
Nt(kind, ts) == [k |-> "nt", v |-> kind, ts |-> ts]
Inv(name, ts) == [k |-> "call", v |-> name, ts |-> ts]

Brace(ts) == Grp("{", ts)
Paren(ts) == Grp("(", ts)

\* Braces written by a rule's transcriber into the output stream.
Emit(ts) == <<Tok("{")>> \o ts \o <<Tok("}")>>

IsTok(x, v) == x.k = "t" /\ x.v = v
IsBrace(x) == x.k = "g" /\ x.v = "{"
IsParen(x) == x.k = "g" /\ x.v = "("

Rest(ts, n) == SubSeq(ts, n + 1, Len(ts))
Last(ts) == ts[Len(ts)]

\* $x:ident accepts identifiers and keywords, not punctuation and not `_`.
Punct == {".", ";", ",", "=", "=>", "::", "<", ">", ":", "+", "@", "#", "!", "_", "{", "}"}
IsIdent(x) == x.k = "t" /\ x.v \notin Punct

-----------------------------------------------------------------------------
(* Fragment parsers.  A fragment matcher first asks whether the next token *)
(* may begin the fragment (if not, the rule simply does not match); once   *)
(* the parser has started, a parse error aborts the whole expansion.       *)
(* Each parser returns the number of tokens of the longest prefix it       *)
(* accepts, or -1 for a parse error.                                       *)

\* Keywords that cannot begin an expression, a pattern or a type.
Keywords == {"let", "else", "in", "mut", "fn"}
ExprKeywords == {"if", "match", "loop", "while", "for", "break"}

CanBeginExpr(x) ==
  \/ x.k \in {"g", "call"}
  \/ x.k = "nt" /\ x.v = "expr"
  \/ x.k = "t" /\ x.v \notin (Punct \ {"<", "::"}) /\ x.v \notin Keywords

CanBeginPat(x) ==
  \/ x.k = "nt" /\ x.v = "pat"
  \/ x.k = "g" /\ x.v \in {"(", "["}
  \/ x.k = "t" /\ x.v \notin (Punct \ {"<", "::", "_"})
               /\ x.v \notin (Keywords \ {"mut"}) /\ x.v \notin ExprKeywords

CanBeginTy(x) ==
  \/ x.k = "nt" /\ x.v = "ty"
  \/ x.k = "g" /\ x.v \in {"(", "["}
  \/ x.k = "t" /\ x.v \notin (Punct \ {"<", "::", "_"})
               /\ x.v \notin Keywords /\ x.v \notin ExprKeywords

\* A type: a captured type, a path segment or `_`.
TyLen(ts) ==
  IF ts = <<>> THEN -1
  ELSE IF ts[1].k = "nt" /\ ts[1].v = "ty" THEN 1
  ELSE IF IsIdent(ts[1]) /\ ts[1].v \notin Keywords \cup ExprKeywords THEN 1
  ELSE IF IsTok(ts[1], "_") THEN 1
  ELSE -1

\* A pattern: a captured pattern, `_`, an identifier or literal, `mut` ident.
PatLen(ts) ==
  IF ts = <<>> THEN -1
  ELSE IF ts[1].k = "nt" /\ ts[1].v = "pat" THEN 1
  ELSE IF IsTok(ts[1], "_") THEN 1
  ELSE IF IsTok(ts[1], "mut")
    THEN IF Len(ts) >= 2 /\ IsIdent(ts[2]) /\ ts[2].v \notin Keywords \cup ExprKeywords
         THEN 2 ELSE -1
  ELSE IF IsIdent(ts[1]) /\ ts[1].v \notin Keywords \cup ExprKeywords THEN 1
  ELSE -1

\* a + m for a parse that went on and accepted m more tokens; -1 on error.
Add(a, m) == IF m < 0 THEN -1 ELSE a + m

\* ts starts after `<` or after a `,` of a generic argument list: the length
\* up to and including the closing `>`.
RECURSIVE TyListLen(_)
RECURSIVE TyListTail(_, _)

\* ... after a type of n tokens
TyListTail(ts, n) ==
  IF n < 1 \/ Len(ts) = n THEN -1
  ELSE IF IsTok(ts[n + 1], ">") THEN n + 1
  ELSE IF IsTok(ts[n + 1], ",") THEN Add(n + 1, TyListLen(Rest(ts, n + 1)))
  ELSE -1

TyListLen(ts) ==
  IF ts = <<>> THEN -1
  ELSE IF IsTok(ts[1], ">") THEN 1
  ELSE TyListTail(ts, TyLen(ts))

\* `:: < ty , ty ... >` at the start of ts: its length, 0 when absent.
TurbofishLen(ts) ==
  IF Len(ts) >= 2 /\ IsTok(ts[1], "::") /\ IsTok(ts[2], "<")
  THEN Add(2, TyListLen(Rest(ts, 2)))
  ELSE 0

BinOps == {"+"}

RECURSIVE ExprLen(_)
RECURSIVE PostfixLen(_, _)
RECURSIVE AfterName(_, _, _)

\* The tail of an expression after n tokens of ts have been accepted:
\* method calls, field accesses, calls and binary operators.
PostfixLen(ts, n) ==
  IF Len(ts) = n THEN n
  ELSE IF IsTok(ts[n + 1], ".")
    THEN IF Len(ts) >= n + 2 /\ IsIdent(ts[n + 2])
         THEN AfterName(ts, n + 2, TurbofishLen(Rest(ts, n + 2)))
         ELSE -1
  ELSE IF IsParen(ts[n + 1]) THEN PostfixLen(ts, n + 1)
  ELSE IF ts[n + 1].k = "t" /\ ts[n + 1].v \in BinOps
    THEN Add(n + 1, ExprLen(Rest(ts, n + 1)))
  ELSE n

\* ... after `. name` (n tokens so far) and generic arguments of tf tokens
AfterName(ts, n, tf) ==
  IF tf < 0 THEN -1
  ELSE IF Len(ts) > n + tf /\ IsParen(ts[n + tf + 1]) THEN PostfixLen(ts, n + tf + 1)
  ELSE IF tf > 0 THEN -1
  ELSE PostfixLen(ts, n)

\* An expression: a captured expression, an atom, a group or a macro
\* invocation, then its tail; `break` with or without a value.  (The
\* expressions that begin with another keyword, `<` or `::` are not parsed
\* here: no invocation of the model hands one to an expression fragment.)
ExprLen(ts) ==
  IF ts = <<>> THEN -1
  ELSE IF ~CanBeginExpr(ts[1]) THEN -1
  ELSE IF IsTok(ts[1], "break")
    THEN IF Len(ts) >= 2 /\ CanBeginExpr(ts[2]) THEN Add(1, ExprLen(Rest(ts, 1))) ELSE 1
  ELSE IF ts[1].k = "t" /\ ts[1].v \in ExprKeywords \cup {"<", "::"} THEN -1
  ELSE PostfixLen(ts, 1)

\* $x:stmt: an item `fn f() { }` or an expression statement (the statement
\* forms with their own rules -- `let`, blocks, `if`, `match`, loops -- are
\* taken by earlier rules).
StmtLen(ts) ==
  IF Len(ts) >= 4 /\ IsTok(ts[1], "fn") /\ IsIdent(ts[2]) /\ IsParen(ts[3])
       /\ IsBrace(ts[4])
  THEN 4
  ELSE ExprLen(ts)

\* $($args:expr),* $(,)? over the content of a call's parentheses.
\* [ok, fatal, items]: items are the argument token sequences.
RECURSIVE ParseArgs(_)
RECURSIVE ArgsTail(_, _)

ArgsCons(item, more) ==
  [ok |-> more.ok, fatal |-> more.fatal, items |-> <<item>> \o more.items]

\* ... after an argument of n tokens
ArgsTail(ts, n) ==
  IF n < 0 THEN [ok |-> FALSE, fatal |-> TRUE, items |-> <<>>]
  ELSE IF Len(ts) = n THEN [ok |-> TRUE, fatal |-> FALSE, items |-> <<ts>>]
  ELSE IF IsTok(ts[n + 1], ",")
    THEN ArgsCons(SubSeq(ts, 1, n), ParseArgs(Rest(ts, n + 1)))
  ELSE [ok |-> FALSE, fatal |-> FALSE, items |-> <<>>]

ParseArgs(ts) ==
  IF ts = <<>> THEN [ok |-> TRUE, fatal |-> FALSE, items |-> <<>>]
  ELSE IF ~CanBeginExpr(ts[1]) THEN [ok |-> FALSE, fatal |-> FALSE, items |-> <<>>]
  ELSE ArgsTail(ts, ExprLen(ts))

\* $($ty:ty),* $(,)? between `<` and `>`: the types, as token sequences.
RECURSIVE ParseTys(_)
RECURSIVE TysTail(_, _)

TysTail(ts, n) ==
  <<SubSeq(ts, 1, n)>> \o
    (IF Len(ts) > n /\ IsTok(ts[n + 1], ",") THEN ParseTys(Rest(ts, n + 1)) ELSE <<>>)

ParseTys(ts) == IF ts = <<>> THEN <<>> ELSE TysTail(ts, TyLen(ts))

\* $($x),* : the captured fragments separated by `,`.
RECURSIVE Sep(_, _)
Sep(kind, items) ==
  IF items = <<>> THEN <<>>
  ELSE IF Len(items) = 1 THEN <<Nt(kind, items[1])>>
  ELSE <<Nt(kind, items[1]), Tok(",")>> \o Sep(kind, Rest(items, 1))

\* A fragment captured again is the same fragment, not a fragment of one.
Cap(kind, ts) ==
  IF Len(ts) = 1 /\ ts[1].k = "nt" /\ ts[1].v = kind THEN ts[1] ELSE Nt(kind, ts)

-----------------------------------------------------------------------------
(* Rule results and the parts of a using_impl! invocation                  *)
(*   $target $scope <state> (group)* { input }                             *)

No == [ok |-> FALSE, fatal |-> FALSE, out |-> <<>>, rule |-> 0]
Fatal == [ok |-> FALSE, fatal |-> TRUE, out |-> <<>>, rule |-> 0]
Yes(line, ts) == [ok |-> TRUE, fatal |-> FALSE, out |-> ts, rule |-> line]

\* Rules are tried in source order; a parse error inside a fragment stops
\* the search.
Or(r1, r2) == IF r1.ok \/ r1.fatal THEN r1 ELSE r2

Target(c) == c.ts[1]
Scope(c) == c.ts[2]
State(c) == c.ts[3].v
Input(c) == Last(c.ts).ts
Mid(c, i) == c.ts[3 + i].ts

Impl(t, sc, st, mids, input) ==
  Inv("using_impl", <<t, sc, Tok(st)>> \o mids \o <<Brace(input)>>)

Attr(name) == <<Tok("#"), Grp("[", <<Tok("allow"), Paren(<<Tok(name)>>)>>)>>
Tmp == Tok("_tmp")

-----------------------------------------------------------------------------
(* macro_rules! using *)

\* $target:expr => { $( $t:tt )* } after the optional `$id @`; n tokens of e
\* are the expression.
\* A variant of the using! rules that writes $target a second time, as a
\* statement after the binding.
UsingAt_twice(line, id, e, n) ==
  IF n < 0 THEN Fatal
  ELSE IF Len(e) = n + 2 /\ IsTok(e[n + 1], "=>") /\ IsBrace(e[n + 2])
    THEN Yes(line, Emit(Attr("unused_mut")
               \o <<Tok("let"), Tok("mut"), id, Tok("="),
                    Cap("expr", SubSeq(e, 1, n)), Tok(";"),
                    Cap("expr", SubSeq(e, 1, n)), Tok(";"),
                    Impl(id, Tok("root"), "empty", <<>>, e[n + 2].ts)>>))
    ELSE No

UsingAt(line, id, e, n) ==
  IF n < 0 THEN Fatal
  ELSE IF Len(e) = n + 2 /\ IsTok(e[n + 1], "=>") /\ IsBrace(e[n + 2])
    THEN Yes(line, Emit(Attr("unused_mut")
               \o <<Tok("let"), Tok("mut"), id, Tok("="),
                    Cap("expr", SubSeq(e, 1, n)), Tok(";"),
                    Impl(id, Tok("root"), "empty", <<>>, e[n + 2].ts)>>))
    ELSE No

using_330(c) ==
  IF c.ts = <<>> \/ ~CanBeginExpr(c.ts[1]) THEN No
  ELSE UsingAt(330, Tok("target"), c.ts, ExprLen(c.ts))

\* A variant of the rule at line 337 that hands `target`, not $id, to
\* using_impl!.
using_337_target(c) ==
  IF Len(c.ts) >= 5 /\ IsIdent(c.ts[1]) /\ IsTok(c.ts[2], "@") /\ CanBeginExpr(c.ts[3])
       /\ ExprLen(Rest(c.ts, 2)) = Len(c.ts) - 4 /\ IsTok(c.ts[Len(c.ts) - 1], "=>")
       /\ IsBrace(Last(c.ts))
  THEN Yes(337, Emit(Attr("unused_mut")
             \o <<Tok("let"), Tok("mut"), c.ts[1], Tok("="),
                  Cap("expr", SubSeq(c.ts, 3, Len(c.ts) - 2)), Tok(";"),
                  Impl(Tok("target"), Tok("root"), "empty", <<>>, Last(c.ts).ts)>>))
  ELSE No

using_337(c) ==
  IF Len(c.ts) >= 3 /\ IsIdent(c.ts[1]) /\ IsTok(c.ts[2], "@") /\ CanBeginExpr(c.ts[3])
  THEN UsingAt(337, c.ts[1], Rest(c.ts, 2), ExprLen(Rest(c.ts, 2)))
  ELSE No

using(c) == Or(using_330(c), using_337(c))

-----------------------------------------------------------------------------
(* using_impl!: maybe_trailing_exp *)

\* A variant of the rule at line 349 that yields $target, not $id.
maybe_trailing_exp_349_target(c) ==
  IF Input(c) = <<>> /\ Len(Mid(c, 1)) = 1 /\ IsIdent(Mid(c, 1)[1])
  THEN Yes(349, <<Target(c)>>) ELSE No

maybe_trailing_exp_349(c) ==
  IF Input(c) = <<>> /\ Len(Mid(c, 1)) = 1 /\ IsIdent(Mid(c, 1)[1])
  THEN Yes(349, Mid(c, 1)) ELSE No

maybe_trailing_exp_353(c) ==
  IF Input(c) # <<>> /\ IsTok(Input(c)[1], ";") /\ Len(Mid(c, 1)) = 1 /\ IsIdent(Mid(c, 1)[1])
  THEN Yes(353, <<Impl(Target(c), Scope(c), "empty", <<>>, Rest(Input(c), 1))>>)
  ELSE No

\* A variant of the rule at line 357 that roots a chain that follows the
\* construct at the temporary.
maybe_trailing_exp_357_chain(c) ==
  IF Len(Mid(c, 1)) = 1 /\ IsIdent(Mid(c, 1)[1])
  THEN IF Input(c) # <<>> /\ IsTok(Input(c)[1], ".")
       THEN Yes(357, <<Impl(Target(c), Scope(c), "in_exp", <<Paren(Mid(c, 1))>>, Input(c))>>)
       ELSE Yes(357, <<Impl(Target(c), Scope(c), "empty", <<>>, Input(c))>>)
  ELSE No

maybe_trailing_exp_357(c) ==
  IF Len(Mid(c, 1)) = 1 /\ IsIdent(Mid(c, 1)[1])
  THEN Yes(357, <<Impl(Target(c), Scope(c), "empty", <<>>, Input(c))>>)
  ELSE No

maybe_trailing_exp(c) ==
  Or(maybe_trailing_exp_349(c), Or(maybe_trailing_exp_353(c), maybe_trailing_exp_357(c)))

-----------------------------------------------------------------------------
(* using_impl!: in_exp *)

\* . $name:ident $( ::<$($ty:ty),* $(,)?> )? ( $($args:expr),* $(,)? ) $($rest:tt)*
\* i is the input, tf the length of the generic arguments, a the arguments.
\* A variant of the method-call rule that drops the generic arguments.
Call385_no_generics(c, i, tf, a) ==
  IF a.fatal THEN Fatal
  ELSE IF ~a.ok THEN No
  ELSE Yes(385, <<Impl(Target(c), Scope(c), "in_exp",
         <<Paren(<<Cap("expr", Mid(c, 1)), Tok("."), i[2], Paren(Sep("expr", a.items))>>)>>,
         Rest(i, 2 + tf + 1))>>)

\* A variant of the method-call rule that drops the arguments.
Call385_no_args(c, i, tf, a) ==
  IF a.fatal THEN Fatal
  ELSE IF ~a.ok THEN No
  ELSE Yes(385, <<Impl(Target(c), Scope(c), "in_exp",
         <<Paren(<<Cap("expr", Mid(c, 1)), Tok("."), i[2]>>
            \o (IF tf > 0
                THEN <<Tok("::"), Tok("<")>>
                       \o Sep("ty", ParseTys(SubSeq(i, 5, 2 + tf - 1)))
                       \o <<Tok(">")>>
                ELSE <<>>)
            \o <<Paren(<<>>)>>)>>,
         Rest(i, 2 + tf + 1))>>)

Call385(c, i, tf, a) ==
  IF a.fatal THEN Fatal
  ELSE IF ~a.ok THEN No
  ELSE Yes(385, <<Impl(Target(c), Scope(c), "in_exp",
         <<Paren(<<Cap("expr", Mid(c, 1)), Tok("."), i[2]>>
            \o (IF tf > 0
                THEN <<Tok("::"), Tok("<")>>
                       \o Sep("ty", ParseTys(SubSeq(i, 5, 2 + tf - 1)))
                       \o <<Tok(">")>>
                ELSE <<>>)
            \o <<Paren(Sep("expr", a.items))>>)>>,
         Rest(i, 2 + tf + 1))>>)

Generics385(c, i, tf) ==
  IF tf < 0
  THEN \* `::<` was seen: a type that cannot begin fails the rule, a type
       \* that begins and does not parse is an error
       IF Len(i) >= 5 /\ CanBeginTy(i[5]) /\ TyLen(Rest(i, 4)) < 0 THEN Fatal ELSE No
  ELSE IF Len(i) > 2 + tf /\ IsParen(i[2 + tf + 1])
    THEN Call385(c, i, tf, ParseArgs(i[2 + tf + 1].ts))
    ELSE No

in_exp_385(c) ==
  IF Len(Input(c)) >= 2 /\ IsTok(Input(c)[1], ".") /\ IsIdent(Input(c)[2])
  THEN Generics385(c, Input(c), TurbofishLen(Rest(Input(c), 2)))
  ELSE No

in_exp_389(c) ==
  LET i == Input(c) IN
  IF Len(i) >= 2 /\ IsTok(i[1], ".") /\ IsIdent(i[2])
  THEN Yes(389, <<Impl(Target(c), Scope(c), "in_exp",
                       <<Paren(<<Cap("expr", Mid(c, 1)), Tok("."), i[2]>>)>>,
                       Rest(i, 2))>>)
  ELSE No

\* A variant of the rule at line 393 that also takes input that starts with
\* a binary operator, and appends it to the chain.
in_exp_393_operator(c) ==
  IF Input(c) = <<>> \/ IsTok(Input(c)[1], "+")
  THEN Yes(393, <<Cap("expr", Mid(c, 1))>> \o Input(c))
  ELSE No

in_exp_393(c) ==
  IF Input(c) = <<>> THEN Yes(393, <<Cap("expr", Mid(c, 1))>>) ELSE No

\* A variant of the rule at line 397 that goes on in scope `block`.
in_exp_397_block(c) ==
  LET i == Input(c) IN
  IF i # <<>> /\ IsTok(i[1], ";")
  THEN Yes(397, Emit(<<Cap("expr", Mid(c, 1)), Tok(";"),
                       Impl(Target(c), Tok("block"), "empty", <<>>, Rest(i, 1))>>))
  ELSE No

in_exp_397(c) ==
  LET i == Input(c) IN
  IF i # <<>> /\ IsTok(i[1], ";")
  THEN Yes(397, Emit(<<Cap("expr", Mid(c, 1)), Tok(";"),
                       Impl(Target(c), Scope(c), "empty", <<>>, Rest(i, 1))>>))
  ELSE No

\* . $name:ident = $value:expr; $($rest:tt)*   (n tokens are the value)
Assign404(c, i, n) ==
  IF n < 0 THEN Fatal
  ELSE IF Len(i) >= 3 + n + 1 /\ IsTok(i[3 + n + 1], ";")
    THEN Yes(404, Emit(<<Cap("expr", Mid(c, 1)), Tok("."), i[2], Tok("="),
                         Cap("expr", SubSeq(i, 4, 3 + n)), Tok(";"),
                         Impl(Target(c), Scope(c), "empty", <<>>, Rest(i, 3 + n + 1))>>))
    ELSE No

in_exp_404(c) ==
  LET i == Input(c) IN
  IF Len(i) >= 4 /\ IsTok(i[1], ".") /\ IsIdent(i[2]) /\ IsTok(i[3], "=")
     /\ CanBeginExpr(i[4])
  THEN Assign404(c, i, ExprLen(Rest(i, 3)))
  ELSE No

in_exp(c) ==
  Or(in_exp_385(c), Or(in_exp_389(c), Or(in_exp_393(c), Or(in_exp_397(c), in_exp_404(c)))))

-----------------------------------------------------------------------------
(* using_impl!: empty *)

\* A variant of the rule at line 363 that yields unit.
empty_363_unit(c) ==
  IF Scope(c) = Tok("root") /\ Input(c) = <<>> THEN Yes(363, <<Paren(<<>>)>>) ELSE No

empty_363(c) ==
  IF Scope(c) = Tok("root") /\ Input(c) = <<>> THEN Yes(363, <<Target(c)>>) ELSE No

\* A variant of the rule at line 367 that yields the target.
empty_367_target(c) ==
  IF Scope(c) = Tok("block") /\ Input(c) = <<>>
  THEN Yes(367, <<Target(c)>>) ELSE No

empty_367(c) ==
  IF Scope(c) = Tok("block") /\ Input(c) = <<>>
  THEN Yes(367, Attr("unreachable_code") \o <<Paren(<<>>)>>) ELSE No

empty_372(c) ==
  LET i == Input(c) IN
  IF i # <<>> /\ IsTok(i[1], ";")
  THEN Yes(372, Emit(<<Tok(";"), Impl(Target(c), Scope(c), "empty", <<>>, Rest(i, 1))>>))
  ELSE No

\* A variant of the rule at line 381 that does not start the chain: it hands
\* the input as it is to the maybe-trailing decision, which hands it back.
empty_381_decision(c) ==
  LET i == Input(c) IN
  IF i # <<>> /\ IsTok(i[1], ".")
  THEN Yes(381, <<Impl(Target(c), Scope(c), "maybe_trailing_exp", <<Paren(<<Tmp>>)>>, i)>>)
  ELSE No

empty_381(c) ==
  LET i == Input(c) IN
  IF i # <<>> /\ IsTok(i[1], ".")
  THEN Yes(381, <<Impl(Target(c), Scope(c), "in_exp", <<Paren(<<Target(c)>>)>>, i)>>)
  ELSE No

\* A variant of the rule at line 413 that keeps the scope of the enclosing
\* block.
empty_413_scope(c) ==
  LET i == Input(c) IN
  IF Len(i) = 1 /\ IsBrace(i[1])
  THEN Yes(413, <<Impl(Target(c), Scope(c), "empty", <<>>, i[1].ts)>>)
  ELSE No

\* A variant of the rule at line 413 that makes the braced block a
\* statement and lets the enclosing block end after it.
empty_413_discard(c) ==
  LET i == Input(c) IN
  IF Len(i) = 1 /\ IsBrace(i[1])
  THEN Yes(413, Emit(<<Impl(Target(c), Tok("block"), "empty", <<>>, i[1].ts), Tok(";"),
                       Impl(Target(c), Scope(c), "empty", <<>>, <<>>)>>))
  ELSE No

empty_413(c) ==
  LET i == Input(c) IN
  IF Len(i) = 1 /\ IsBrace(i[1])
  THEN Yes(413, <<Impl(Target(c), Tok("block"), "empty", <<>>, i[1].ts)>>)
  ELSE No

\* A variant of the rule at line 417 that expands the braced block under
\* the scope of the enclosing block.
empty_417_scope(c) ==
  LET i == Input(c) IN
  IF i # <<>> /\ IsBrace(i[1])
  THEN Yes(417, Emit(<<Impl(Target(c), Scope(c), "empty", <<>>, i[1].ts), Tok(";"),
                       Impl(Target(c), Scope(c), "empty", <<>>, Rest(i, 1))>>))
  ELSE No

empty_417(c) ==
  LET i == Input(c) IN
  IF i # <<>> /\ IsBrace(i[1])
  THEN Yes(417, Emit(<<Impl(Target(c), Tok("block"), "empty", <<>>, i[1].ts), Tok(";"),
                       Impl(Target(c), Scope(c), "empty", <<>>, Rest(i, 1))>>))
  ELSE No

empty_426(c) ==
  LET i == Input(c) IN
  IF i # <<>> /\ IsTok(i[1], "let")
  THEN Yes(426, <<Impl(Target(c), Scope(c), "in_let", <<Paren(<<>>)>>, Rest(i, 1))>>)
  ELSE No

empty_474(c) ==
  LET i == Input(c) IN
  IF i # <<>> /\ IsTok(i[1], "if")
  THEN Yes(474, <<Impl(Target(c), Scope(c), "in_if",
                       <<Paren(<<>>), Paren(<<>>), Paren(<<>>)>>, Rest(i, 1))>>)
  ELSE No

empty_570(c) ==
  LET i == Input(c) IN
  IF i # <<>> /\ IsTok(i[1], "match")
  THEN Yes(570, <<Impl(Target(c), Scope(c), "in_match", <<Paren(<<>>)>>, Rest(i, 1))>>)
  ELSE No

\* A variant of the rule at line 709 that emits the loop as a statement and
\* hands the rest to state empty.
empty_709_statement(c) ==
  LET i == Input(c) IN
  IF Len(i) >= 2 /\ IsTok(i[1], "loop") /\ IsBrace(i[2])
  THEN Yes(709, Emit(<<Tok("loop")>>
                   \o Emit(<<Impl(Target(c), Tok("block"), "empty", <<>>, i[2].ts)>>)
                   \o <<Impl(Target(c), Scope(c), "empty", <<>>, Rest(i, 2))>>))
  ELSE No

empty_709(c) ==
  LET i == Input(c) IN
  IF Len(i) >= 2 /\ IsTok(i[1], "loop") /\ IsBrace(i[2])
  THEN Yes(709, Emit(<<Tok("let"), Tmp, Tok("="), Tok("loop")>>
                   \o Emit(<<Impl(Target(c), Tok("block"), "empty", <<>>, i[2].ts)>>)
                   \o <<Tok(";"),
                        Impl(Target(c), Scope(c), "maybe_trailing_exp",
                             <<Paren(<<Tmp>>)>>, Rest(i, 2))>>))
  ELSE No

empty_720(c) ==
  LET i == Input(c) IN
  IF i # <<>> /\ IsTok(i[1], "while")
  THEN Yes(720, <<Impl(Target(c), Scope(c), "in_while", <<Paren(<<>>)>>, Rest(i, 1))>>)
  ELSE No

\* for $for_pattern:pat in $($rest:tt)*   (n tokens are the pattern)
For745(c, i, n) ==
  IF n < 0 THEN Fatal
  ELSE IF Len(i) >= n + 2 /\ IsTok(i[n + 2], "in")
    THEN Yes(745, <<Impl(Target(c), Scope(c), "in_for",
                         <<Paren(<<Cap("pat", SubSeq(i, 2, n + 1))>>), Paren(<<>>)>>,
                         Rest(i, n + 2))>>)
    ELSE No

empty_745(c) ==
  LET i == Input(c) IN
  IF Len(i) >= 2 /\ IsTok(i[1], "for") /\ CanBeginPat(i[2])
  THEN For745(c, i, PatLen(Rest(i, 1)))
  ELSE No

\* $st:stmt; $($rest:tt)*   (any token may begin a statement; n tokens are it)
Stmt772(c, i, n) ==
  IF n < 0 THEN Fatal
  ELSE IF Len(i) > n /\ IsTok(i[n + 1], ";")
    THEN Yes(772, Emit(<<Cap("stmt", SubSeq(i, 1, n)),
                         Impl(Target(c), Scope(c), "empty", <<>>, Rest(i, n + 1))>>))
    ELSE No

empty_772(c) ==
  IF Input(c) = <<>> THEN No ELSE Stmt772(c, Input(c), StmtLen(Input(c)))

\* A variant of the rule at line 779 that yields unit.
Expr779_unit(i, n) ==
  IF n < 0 THEN Fatal
  ELSE IF n = Len(i) THEN Yes(779, <<Paren(<<>>)>>)
  ELSE No

\* $exp:expr   (n tokens are the expression)
Expr779(i, n) ==
  IF n < 0 THEN Fatal
  ELSE IF n = Len(i) THEN Yes(779, <<Cap("expr", i)>>)
  ELSE No

empty_779(c) ==
  IF Input(c) = <<>> \/ ~CanBeginExpr(Input(c)[1]) THEN No
  ELSE Expr779(Input(c), ExprLen(Input(c)))

empty(c) ==
  Or(empty_363(c), Or(empty_367(c), Or(empty_372(c), Or(empty_381(c),
  Or(empty_413(c), Or(empty_417(c), Or(empty_426(c), Or(empty_474(c),
  Or(empty_570(c), Or(empty_709(c), Or(empty_720(c), Or(empty_745(c),
  Or(empty_772(c), empty_779(c))))))))))))))

-----------------------------------------------------------------------------
(* using_impl!: in_let, in_let_exp *)

in_let_430(c) ==
  LET i == Input(c) IN
  IF i # <<>> /\ IsTok(i[1], "=")
  THEN Yes(430, <<Impl(Target(c), Scope(c), "in_let_exp",
                       <<Paren(Mid(c, 1)), Paren(<<Tok("_")>>), Paren(<<>>)>>, Rest(i, 1))>>)
  ELSE No

\* : $ty:ty = $($rest:tt)*   (n tokens are the type)
Ty437(c, i, n) ==
  IF n < 0 THEN Fatal
  ELSE IF Len(i) >= n + 2 /\ IsTok(i[n + 2], "=")
    THEN Yes(437, <<Impl(Target(c), Scope(c), "in_let_exp",
                         <<Paren(Mid(c, 1)), Paren(<<Cap("ty", SubSeq(i, 2, n + 1))>>),
                           Paren(<<>>)>>, Rest(i, n + 2))>>)
    ELSE No

in_let_437(c) ==
  LET i == Input(c) IN
  IF Len(i) >= 2 /\ IsTok(i[1], ":") /\ CanBeginTy(i[2])
  THEN Ty437(c, i, TyLen(Rest(i, 1)))
  ELSE No

in_let_444(c) ==
  LET i == Input(c) IN
  IF i # <<>>
  THEN Yes(444, <<Impl(Target(c), Scope(c), "in_let",
                       <<Paren(Mid(c, 1) \o <<i[1]>>)>>, Rest(i, 1))>>)
  ELSE No

in_let(c) == Or(in_let_430(c), Or(in_let_437(c), in_let_444(c)))

\* ($x:pat), ($x:ty): "ok", "no" (the rule does not match) or "fatal".
WholeFrag(ts, begins, n) ==
  IF ts = <<>> \/ ~begins THEN "no"
  ELSE IF n < 0 THEN "fatal"
  ELSE IF n # Len(ts) THEN "no"
  ELSE "ok"

WholePat(ts) == WholeFrag(ts, ts # <<>> /\ CanBeginPat(ts[1]), PatLen(ts))
WholeTy(ts) == WholeFrag(ts, ts # <<>> /\ CanBeginTy(ts[1]), TyLen(ts))

\* ($pattern:pat) ($ty:ty)
LetHead(c) ==
  IF WholePat(Mid(c, 1)) # "ok" THEN WholePat(Mid(c, 1)) ELSE WholeTy(Mid(c, 2))

\* A variant of the rule at line 451 that hands the rest to a Nested block.
in_let_exp_451_block(c) ==
  LET i == Input(c) IN
  IF LetHead(c) = "fatal" THEN Fatal
  ELSE IF LetHead(c) = "ok" /\ i # <<>> /\ IsTok(i[1], ";")
    THEN Yes(451, Emit(<<Tok("let"), Cap("pat", Mid(c, 1)), Tok(":"),
                         Cap("ty", Mid(c, 2)), Tok("="),
                         Impl(Target(c), Tok("block"), "empty", <<>>, Mid(c, 3)), Tok(";"),
                         Impl(Target(c), Tok("block"), "empty", <<>>, Rest(i, 1))>>))
    ELSE No

in_let_exp_451(c) ==
  LET i == Input(c) IN
  IF LetHead(c) = "fatal" THEN Fatal
  ELSE IF LetHead(c) = "ok" /\ i # <<>> /\ IsTok(i[1], ";")
    THEN Yes(451, Emit(<<Tok("let"), Cap("pat", Mid(c, 1)), Tok(":"),
                         Cap("ty", Mid(c, 2)), Tok("="),
                         Impl(Target(c), Tok("block"), "empty", <<>>, Mid(c, 3)), Tok(";"),
                         Impl(Target(c), Scope(c), "empty", <<>>, Rest(i, 1))>>))
    ELSE No

in_let_exp_463(c) ==
  LET i == Input(c) IN
  IF LetHead(c) = "fatal" THEN Fatal
  ELSE IF LetHead(c) = "ok" /\ i # <<>>
    THEN Yes(463, <<Impl(Target(c), Scope(c), "in_let_exp",
                         <<Paren(<<Cap("pat", Mid(c, 1))>>), Paren(<<Cap("ty", Mid(c, 2))>>),
                           Paren(Mid(c, 3) \o <<i[1]>>)>>, Rest(i, 1))>>)
    ELSE No

in_let_exp(c) == Or(in_let_exp_451(c), in_let_exp_463(c))

-----------------------------------------------------------------------------
(* using_impl!: in_if, in_if_next *)

in_if_478(c) ==
  LET i == Input(c) IN
  IF Mid(c, 2) = <<>> /\ Mid(c, 3) = <<>> /\ i # <<>> /\ IsBrace(i[1])
  THEN Yes(478, <<Impl(Target(c), Scope(c), "in_if_next",
                       <<Paren(<<>>), Paren(<<Paren(Mid(c, 1)), i[1]>>), Paren(<<>>)>>,
                       Rest(i, 1))>>)
  ELSE No

in_if_492(c) ==
  LET i == Input(c) IN
  IF i # <<>> /\ IsBrace(i[1])
  THEN Yes(492, <<Impl(Target(c), Scope(c), "in_if_next",
                       <<Paren(<<>>), Paren(Mid(c, 2)),
                         Paren(Mid(c, 3) \o <<Paren(<<Paren(Mid(c, 1)), i[1]>>)>>)>>,
                       Rest(i, 1))>>)
  ELSE No

in_if_506(c) ==
  LET i == Input(c) IN
  IF i # <<>>
  THEN Yes(506, <<Impl(Target(c), Scope(c), "in_if",
                       <<Paren(Mid(c, 1) \o <<i[1]>>), Paren(Mid(c, 2)), Paren(Mid(c, 3))>>,
                       Rest(i, 1))>>)
  ELSE No

in_if(c) == Or(in_if_478(c), Or(in_if_492(c), in_if_506(c)))

in_if_next_520(c) ==
  LET i == Input(c) IN
  IF Mid(c, 1) = <<>> /\ Len(i) >= 2 /\ IsTok(i[1], "else") /\ IsTok(i[2], "if")
  THEN Yes(520, <<Impl(Target(c), Scope(c), "in_if",
                       <<Paren(<<>>), Paren(Mid(c, 2)), Paren(Mid(c, 3))>>, Rest(i, 2))>>)
  ELSE No

\* (($($cond:tt)*) { $($body:tt)* })
IsBranch(ts) == Len(ts) = 2 /\ IsParen(ts[1]) /\ IsBrace(ts[2])

\* The branches accumulated by in_if: the first one and the `else if` ones.
BranchesOk(c) ==
  /\ Mid(c, 1) = <<>>
  /\ IsBranch(Mid(c, 2))
  /\ \A j \in 1..Len(Mid(c, 3)) : IsParen(Mid(c, 3)[j]) /\ IsBranch(Mid(c, 3)[j].ts)

\* if c1 { .. } else if c2 { .. } ...: each body expanded as a `block`.
RECURSIVE ElseIfs(_, _)
ElseIfs(t, bs) ==
  IF bs = <<>> THEN <<>>
  ELSE <<Tok("else"), Tok("if")>> \o bs[1].ts[1].ts
         \o Emit(<<Impl(t, Tok("block"), "empty", <<>>, bs[1].ts[2].ts)>>)
         \o ElseIfs(t, Rest(bs, 1))

IfChain(c) ==
  <<Tok("if")>> \o Mid(c, 2)[1].ts
    \o Emit(<<Impl(Target(c), Tok("block"), "empty", <<>>, Mid(c, 2)[2].ts)>>)
    \o ElseIfs(Target(c), Mid(c, 3))

\* A variant of the rule at line 534 that expands the body of the final
\* else under the scope of the enclosing block.
in_if_next_534_scope(c) ==
  LET i == Input(c) IN
  IF BranchesOk(c) /\ Len(i) >= 2 /\ IsTok(i[1], "else") /\ IsBrace(i[2])
  THEN Yes(534, Emit(<<Tok("let"), Tmp, Tok("=")>> \o IfChain(c)
                   \o <<Tok("else")>>
                   \o Emit(<<Impl(Target(c), Scope(c), "empty", <<>>, i[2].ts)>>)
                   \o <<Tok(";"),
                        Impl(Target(c), Scope(c), "maybe_trailing_exp",
                             <<Paren(<<Tmp>>)>>, Rest(i, 2))>>))
  ELSE No

in_if_next_534(c) ==
  LET i == Input(c) IN
  IF BranchesOk(c) /\ Len(i) >= 2 /\ IsTok(i[1], "else") /\ IsBrace(i[2])
  THEN Yes(534, Emit(<<Tok("let"), Tmp, Tok("=")>> \o IfChain(c)
                   \o <<Tok("else")>>
                   \o Emit(<<Impl(Target(c), Tok("block"), "empty", <<>>, i[2].ts)>>)
                   \o <<Tok(";"),
                        Impl(Target(c), Scope(c), "maybe_trailing_exp",
                             <<Paren(<<Tmp>>)>>, Rest(i, 2))>>))
  ELSE No

\* A variant of the rule at line 552 that emits the first branch alone and
\* drops the `else if` branches.
in_if_next_552_first(c) ==
  IF BranchesOk(c)
  THEN Yes(552, Emit(<<Tok("if")>> \o Mid(c, 2)[1].ts
                   \o Emit(<<Impl(Target(c), Tok("block"), "empty", <<>>,
                                  Mid(c, 2)[2].ts)>>)
                   \o <<Impl(Target(c), Scope(c), "empty", <<>>, Input(c))>>))
  ELSE No

in_if_next_552(c) ==
  IF BranchesOk(c)
  THEN Yes(552, Emit(IfChain(c)
                   \o <<Impl(Target(c), Scope(c), "empty", <<>>, Input(c))>>))
  ELSE No

in_if_next(c) == Or(in_if_next_520(c), Or(in_if_next_534(c), in_if_next_552(c)))

-----------------------------------------------------------------------------
(* using_impl!: loop bodies of while and for *)

\* A variant of the rule at line 724 that expands the body under the scope
\* of the enclosing block.
in_while_724_scope(c) ==
  LET i == Input(c) IN
  IF i # <<>> /\ IsBrace(i[1])
  THEN Yes(724, Emit(<<Tok("while")>> \o Mid(c, 1)
                   \o Emit(<<Impl(Target(c), Scope(c), "empty", <<>>, i[1].ts)>>)
                   \o <<Impl(Target(c), Scope(c), "empty", <<>>, Rest(i, 1))>>))
  ELSE No

in_while_724(c) ==
  LET i == Input(c) IN
  IF i # <<>> /\ IsBrace(i[1])
  THEN Yes(724, Emit(<<Tok("while")>> \o Mid(c, 1)
                   \o Emit(<<Impl(Target(c), Tok("block"), "empty", <<>>, i[1].ts)>>)
                   \o <<Impl(Target(c), Scope(c), "empty", <<>>, Rest(i, 1))>>))
  ELSE No

in_while_736(c) ==
  LET i == Input(c) IN
  IF i # <<>>
  THEN Yes(736, <<Impl(Target(c), Scope(c), "in_while",
                       <<Paren(Mid(c, 1) \o <<i[1]>>)>>, Rest(i, 1))>>)
  ELSE No

in_while(c) == Or(in_while_724(c), in_while_736(c))

in_for_749(c) ==
  LET i == Input(c) IN
  IF WholePat(Mid(c, 1)) = "fatal" THEN Fatal
  ELSE IF WholePat(Mid(c, 1)) = "ok" /\ i # <<>> /\ IsBrace(i[1])
    THEN Yes(749, Emit(<<Tok("for"), Cap("pat", Mid(c, 1)), Tok("in")>> \o Mid(c, 2)
                     \o Emit(<<Impl(Target(c), Tok("block"), "empty", <<>>, i[1].ts)>>)
                     \o <<Impl(Target(c), Scope(c), "empty", <<>>, Rest(i, 1))>>))
    ELSE No

in_for_762(c) ==
  LET i == Input(c) IN
  IF WholePat(Mid(c, 1)) = "fatal" THEN Fatal
  ELSE IF WholePat(Mid(c, 1)) = "ok" /\ i # <<>>
    THEN Yes(762, <<Impl(Target(c), Scope(c), "in_for",
                         <<Paren(<<Cap("pat", Mid(c, 1))>>), Paren(Mid(c, 2) \o <<i[1]>>)>>,
                         Rest(i, 1))>>)
    ELSE No

in_for(c) == Or(in_for_749(c), in_for_762(c))

-----------------------------------------------------------------------------
(* using_impl!: in_match, in_match_body, in_match_body_in_exp *)

in_match_574(c) ==
  LET i == Input(c) IN
  IF i # <<>> /\ IsBrace(i[1])
  THEN Yes(574, <<Impl(Target(c), Scope(c), "in_match_body",
                       <<Paren(Mid(c, 1)), Paren(<<>>)>>, i)>>)
  ELSE No

in_match_581(c) ==
  LET i == Input(c) IN
  IF i # <<>>
  THEN Yes(581, <<Impl(Target(c), Scope(c), "in_match",
                       <<Paren(Mid(c, 1) \o <<i[1]>>)>>, Rest(i, 1))>>)
  ELSE No

in_match(c) == Or(in_match_574(c), in_match_581(c))

\* The arms still to be read: the content of the match's braces.
Arms(c) == Input(c)[1].ts
AfterMatch(c) == Rest(Input(c), 1)
HasArms(c) == Input(c) # <<>> /\ IsBrace(Input(c)[1])

\* $pattern:pat $( if $guard:expr )? =>  at the start of b.
\* [res, pat, guard, rest]: res is "ok", "no" or "fatal"; guard holds the
\* guard's tokens (<<>> when there is none); rest follows the `=>`.
NotArm(res) == [res |-> res, pat |-> <<>>, guard |-> <<>>, rest |-> <<>>]

\* ... after a pattern of n tokens and `if`, g tokens are the guard
ArmGuard(b, n, g) ==
  IF g < 0 THEN NotArm("fatal")
  ELSE IF Len(b) >= n + g + 2 /\ IsTok(b[n + g + 2], "=>")
    THEN [res |-> "ok", pat |-> SubSeq(b, 1, n),
          guard |-> SubSeq(b, n + 2, n + g + 1), rest |-> Rest(b, n + g + 2)]
    ELSE NotArm("no")

\* ... n tokens are the pattern
ArmPat(b, n) ==
  IF n < 0 THEN NotArm("fatal")
  ELSE IF Len(b) = n THEN NotArm("no")
  ELSE IF IsTok(b[n + 1], "=>")
    THEN [res |-> "ok", pat |-> SubSeq(b, 1, n), guard |-> <<>>, rest |-> Rest(b, n + 1)]
  ELSE IF IsTok(b[n + 1], "if") /\ Len(b) >= n + 2 /\ CanBeginExpr(b[n + 2])
    THEN ArmGuard(b, n, ExprLen(Rest(b, n + 1)))
  ELSE NotArm("no")

ArmHead(b) ==
  IF b = <<>> \/ ~CanBeginPat(b[1]) THEN NotArm("no") ELSE ArmPat(b, PatLen(b))

\* ($pattern $( if $guard )* => { exp }): one recorded arm.
Case(pat, guard, exp) ==
  Paren(<<Cap("pat", pat)>>
        \o (IF guard = <<>> THEN <<>> ELSE <<Tok("if"), Cap("expr", guard)>>)
        \o <<Tok("=>"), Brace(exp)>>)

MatchBody(c, cases, arms) ==
  Impl(Target(c), Scope(c), "in_match_body",
       <<Paren(Mid(c, 1)), Paren(cases)>>, <<Brace(arms)>> \o AfterMatch(c))

\* The rules that read an arm take its head h, parsed once.
in_match_body_588(c, h) ==
  IF h.res = "fatal" THEN Fatal
  ELSE IF h.res = "ok" /\ h.rest # <<>> /\ IsTok(h.rest[1], ".")
    THEN Yes(588, <<Impl(Target(c), Scope(c), "in_match_body_in_exp",
               <<Paren(Mid(c, 1)), Paren(Mid(c, 2)),
                 Paren(<<Paren(<<Cap("pat", h.pat)>>)>>
                       \o (IF h.guard = <<>> THEN <<>> ELSE <<Cap("expr", h.guard)>>)),
                 Paren(<<Tok(".")>>)>>,
               <<Brace(Rest(h.rest, 1))>> \o AfterMatch(c))>>)
    ELSE No

\* (($match_pattern:pat) $($match_guard:expr)?)
ExpHeadOk(c) ==
  LET h == Mid(c, 3) IN
  /\ Len(h) \in {1, 2}
  /\ IsParen(h[1]) /\ Len(h[1].ts) = 1 /\ PatLen(h[1].ts) = 1
  /\ Len(h) = 2 => ExprLen(Rest(h, 1)) = 1

ExpCase(c) ==
  Case(Mid(c, 3)[1].ts, Rest(Mid(c, 3), 1), Mid(c, 4))

in_match_body_in_exp_602(c) ==
  IF HasArms(c) /\ ExpHeadOk(c) /\ Arms(c) # <<>> /\ IsTok(Arms(c)[1], ",")
  THEN Yes(602, <<MatchBody(c, Mid(c, 2) \o <<ExpCase(c)>>, Rest(Arms(c), 1))>>)
  ELSE No

in_match_body_in_exp_616(c) ==
  IF HasArms(c) /\ ExpHeadOk(c) /\ Arms(c) = <<>>
  THEN Yes(616, <<MatchBody(c, Mid(c, 2) \o <<ExpCase(c)>>, <<>>)>>)
  ELSE No

in_match_body_in_exp_630(c) ==
  IF HasArms(c) /\ ExpHeadOk(c) /\ Arms(c) # <<>>
  THEN Yes(630, <<Impl(Target(c), Scope(c), "in_match_body_in_exp",
                       <<Paren(Mid(c, 1)), Paren(Mid(c, 2)), Paren(Mid(c, 3)),
                         Paren(Mid(c, 4) \o <<Arms(c)[1]>>)>>,
                       <<Brace(Rest(Arms(c), 1))>> \o AfterMatch(c))>>)
  ELSE No

in_match_body_in_exp(c) ==
  Or(in_match_body_in_exp_602(c), Or(in_match_body_in_exp_616(c), in_match_body_in_exp_630(c)))

\* A variant of the rule at line 646 that records the arm before the arms
\* recorded so far.
in_match_body_646_front(c, h) ==
  IF h.res = "fatal" THEN Fatal
  ELSE IF h.res = "ok" /\ Len(h.rest) >= 2 /\ IsBrace(h.rest[1]) /\ IsTok(h.rest[2], ",")
    THEN Yes(646, <<MatchBody(c, <<Case(h.pat, h.guard, h.rest[1].ts)>> \o Mid(c, 2),
                              Rest(h.rest, 2))>>)
    ELSE No

in_match_body_646(c, h) ==
  IF h.res = "fatal" THEN Fatal
  ELSE IF h.res = "ok" /\ Len(h.rest) >= 2 /\ IsBrace(h.rest[1]) /\ IsTok(h.rest[2], ",")
    THEN Yes(646, <<MatchBody(c, Mid(c, 2) \o <<Case(h.pat, h.guard, h.rest[1].ts)>>,
                              Rest(h.rest, 2))>>)
    ELSE No

in_match_body_658(c, h) ==
  IF h.res = "fatal" THEN Fatal
  ELSE IF h.res = "ok" /\ h.rest # <<>> /\ IsBrace(h.rest[1])
    THEN Yes(658, <<MatchBody(c, Mid(c, 2) \o <<Case(h.pat, h.guard, h.rest[1].ts)>>,
                              Rest(h.rest, 1))>>)
    ELSE No

\* => $exp:expr, $($body:tt)*  and  => $exp:expr   (n tokens are the
\* expression; comma tells the rule)
ArmExpr(c, h, n, comma) ==
  IF n < 0 THEN Fatal
  ELSE IF comma /\ Len(h.rest) > n /\ IsTok(h.rest[n + 1], ",")
    THEN Yes(670, <<MatchBody(c,
             Mid(c, 2) \o <<Case(h.pat, h.guard, <<Cap("expr", SubSeq(h.rest, 1, n))>>)>>,
             Rest(h.rest, n + 1))>>)
  ELSE IF ~comma /\ Len(h.rest) = n
    THEN Yes(682, <<MatchBody(c,
             Mid(c, 2) \o <<Case(h.pat, h.guard, <<Cap("expr", h.rest)>>)>>, <<>>)>>)
  ELSE No

in_match_body_670(c, h) ==
  IF h.res = "fatal" THEN Fatal
  ELSE IF h.res = "ok" /\ h.rest # <<>> /\ CanBeginExpr(h.rest[1])
    THEN ArmExpr(c, h, ExprLen(h.rest), TRUE)
    ELSE No

in_match_body_682(c, h) ==
  IF h.res = "fatal" THEN Fatal
  ELSE IF h.res = "ok" /\ h.rest # <<>> /\ CanBeginExpr(h.rest[1])
    THEN ArmExpr(c, h, ExprLen(h.rest), FALSE)
    ELSE No

\* ($pattern:pat $( if $guard:expr )? => { $($exp:tt)* })
CaseOk(h) == h.res = "ok" /\ Len(h.rest) = 1 /\ IsBrace(h.rest[1])
IsCase(x) == IsParen(x) /\ CaseOk(ArmHead(x.ts))

\* $pattern $( if $guard )* => { using_impl!($target block empty { $($exp)* }) },
RECURSIVE EmitArms(_, _)
EmitArms(t, cases) ==
  IF cases = <<>> THEN <<>>
  ELSE SubSeq(cases[1].ts, 1, Len(cases[1].ts) - 1)
         \o Emit(<<Impl(t, Tok("block"), "empty", <<>>, Last(cases[1].ts).ts)>>) \o <<Tok(",")>>
         \o EmitArms(t, Rest(cases, 1))

in_match_body_694(c) ==
  IF HasArms(c) /\ Arms(c) = <<>> /\ \A j \in 1..Len(Mid(c, 2)) : IsCase(Mid(c, 2)[j])
  THEN Yes(694, Emit(<<Tok("let"), Tmp, Tok("="), Tok("match")>> \o Mid(c, 1)
                   \o Emit(EmitArms(Target(c), Mid(c, 2)))
                   \o <<Tok(";"),
                        Impl(Target(c), Scope(c), "maybe_trailing_exp",
                             <<Paren(<<Tmp>>)>>, AfterMatch(c))>>))
  ELSE No

ArmRules(c, h) ==
  Or(in_match_body_588(c, h), Or(in_match_body_646(c, h), Or(in_match_body_658(c, h),
  Or(in_match_body_670(c, h), Or(in_match_body_682(c, h), in_match_body_694(c))))))

in_match_body(c) == IF HasArms(c) THEN ArmRules(c, ArmHead(Arms(c))) ELSE No

-----------------------------------------------------------------------------
(* The expansion machine *)

\* The macro or parser state of the pending invocation c.
StateOf(c) == IF c.v = "using" THEN "using" ELSE State(c)

\* The first pending invocation of ts at or after position i; 0 if none.
RECURSIVE NextCall(_, _)
NextCall(ts, i) ==
  IF i > Len(ts) THEN 0
  ELSE IF ts[i].k = "call" THEN i
  ELSE NextCall(ts, i + 1)

\* x is, or holds at some depth, a macro invocation.
RECURSIVE HasCall(_)
HasCall(x) ==
  \/ x.k = "call"
  \/ x.k \in {"g", "nt"} /\ \E j \in 1..Len(x.ts) : HasCall(x.ts[j])

\* ts with the groups and fragments around its invocations laid open, so
\* that each invocation is an element of the stream: an invocation in the
\* expansion is expanded wherever it stands, as in the argument of a call.
RECURSIVE Open(_)
Open(ts) ==
  IF ts = <<>> THEN <<>>
  ELSE IF ts[1].k = "call" \/ ~HasCall(ts[1]) THEN <<ts[1]>> \o Open(Rest(ts, 1))
  ELSE IF ts[1].k = "g"
    THEN <<Tok(ts[1].v)>> \o Open(ts[1].ts)
           \o <<Tok(CASE ts[1].v = "(" -> ")" [] ts[1].v = "[" -> "]" [] ts[1].v = "{" -> "}")>>
           \o Open(Rest(ts, 1))
  ELSE IF Len(ts[1].ts) = 1 THEN Open(ts[1].ts) \o Open(Rest(ts, 1))
  ELSE <<Tok("(:")>> \o Open(ts[1].ts) \o <<Tok(":)")>> \o Open(Rest(ts, 1))

\* The output with the pending invocation replaced by ts.
Splice(ts) == SubSeq(out, 1, pos - 1) \o ts \o Rest(out, pos)

\* The expansion goes on from output new, whose next invocation is at p.
Resume(new, p, rule) ==
  /\ out' = new
  /\ pos' = p
  /\ pc' = (IF p = 0 THEN "done" ELSE StateOf(new[p]))
  /\ status' = (IF p = 0 THEN "done" ELSE "running")
  /\ fired' = fired \cup {rule}

\* The invocations of the stream are expanded first, from the left; then
\* the ones inside its groups and fragments.
Continue(new, rule) ==
  IF NextCall(new, pos) > 0 THEN Resume(new, NextCall(new, pos), rule)
  ELSE Resume(Open(new), NextCall(Open(new), 1), rule)

\* No rule matches, or a fragment fails to parse: compilation fails and
\* there is no expansion at all.
Fail ==
  /\ out' = <<>>
  /\ pos' = 0
  /\ pc' = "failed"
  /\ status' = "failed"
  /\ fired' = fired

Apply(r) == IF r.ok THEN Continue(Splice(r.out), r.rule) ELSE Fail

\* One expansion step of the leftmost pending invocation: the first of the
\* rules r of its macro or state that matches rewrites it in place.
Step(r) ==
  /\ status = "running"
  /\ Apply(r)
  /\ UNCHANGED <<ast, named>>

-----------------------------------------------------------------------------
(* Invocations: the blocks handed to using!, as syntax trees, and the      *)
(* token trees they are written as.                                        *)
(*                                                                         *)
(* An item is [k, ch, bs, x]: k its kind, ch the accessors of its chain,   *)
(* bs its bodies (sequences of items), x the forms of its parts.           *)

MaxChain == 2
MaxStmts == 2
MaxTail == 1

Item(k, ch, bs, x) == [k |-> k, ch |-> ch, bs |-> bs, x |-> x]

\* Accessors: a field, a call, a call with one and with two generic arguments.
Accs == {"x", "push", "sum", "conv"}

AccToks(a) ==
  CASE a = "x" -> <<Tok("."), Tok("x")>>
    [] a = "push" -> <<Tok("."), Tok("push"), Paren(<<Tok("e")>>)>>
    [] a = "sum" -> <<Tok("."), Tok("sum"), Tok("::"), Tok("<"), Tok("T"), Tok(">"),
                      Paren(<<>>)>>
    [] a = "conv" -> <<Tok("."), Tok("conv"), Tok("::"), Tok("<"), Tok("T"), Tok(","),
                       Tok("U"), Tok(">"), Paren(<<Tok("e"), Tok(","), Tok("e2")>>)>>

RECURSIVE ChainToks(_)
ChainToks(ch) == IF ch = <<>> THEN <<>> ELSE AccToks(ch[1]) \o ChainToks(Rest(ch, 1))

\* The expression whose value is bound to the target, and the name given to it
\* in using!(vec @ mk() => { .. }).
E == <<Tok("mk"), Paren(<<>>)>>
Name == Tok("vec")

Pats == <<"p1", "p2", "p3", "p4">>
Guarded == {"Gc,", "Gc", "Ge,", "Ge", "Gb", "Gb,"}
Comma == {"c,", "e,", "b,", "Gc,", "Ge,", "Gb,"}
Braced == {"b", "b,", "Gb", "Gb,"}

RECURSIVE RenderBody(_)
RECURSIVE RenderItem(_)
RECURSIVE RenderElse(_, _, _)
RECURSIVE RenderArms(_, _, _)

\* else if c { .. } ... [else { .. }] for the branches from the j-th on
RenderElse(bs, j, else) ==
  IF j > Len(bs) THEN <<>>
  ELSE IF j = Len(bs) /\ else THEN <<Tok("else"), Brace(RenderBody(bs[j]))>>
  ELSE <<Tok("else"), Tok("if"), Tok("c2"), Brace(RenderBody(bs[j]))>>
         \o RenderElse(bs, j + 1, else)

RenderArms(bs, x, j) ==
  IF j > Len(bs) THEN <<>>
  ELSE <<Tok(Pats[j])>>
         \o (IF x[j] \in Guarded THEN <<Tok("if"), Tok("gd")>> ELSE <<>>)
         \o <<Tok("=>")>>
         \o (IF x[j] \in Braced THEN <<Brace(RenderBody(bs[j]))>> ELSE RenderBody(bs[j]))
         \o (IF x[j] \in Comma THEN <<Tok(",")>> ELSE <<>>)
         \o RenderArms(bs, x, j + 1)

RenderItem(i) ==
  CASE i.k = "cs" -> ChainToks(i.ch) \o <<Tok(";")>>
    [] i.k = "ct" -> ChainToks(i.ch)
    [] i.k = "cop" -> ChainToks(i.ch) \o <<Tok("+"), Tok("e")>>
    [] i.k = "asg" -> ChainToks(i.ch) \o <<Tok("."), Tok("y"), Tok("="), Tok("e"), Tok(";")>>
    [] i.k = "st" -> <<Tok("e"), Tok(";")>>
    [] i.k = "brk" -> <<Tok("break"), Tok("e"), Tok(";")>>
    [] i.k = "ex" -> <<Tok("e")>>
    [] i.k = "semi" -> <<Tok(";")>>
    [] i.k = "blk" -> <<Brace(RenderBody(i.bs[1]))>>
    [] i.k = "if" -> <<Tok("if"), Tok("c1"), Brace(RenderBody(i.bs[1]))>>
                       \o RenderElse(i.bs, 2, i.x = <<"else">>)
    [] i.k = "match" -> <<Tok("match"), Tok("s"), Brace(RenderArms(i.bs, i.x, 1))>>
    [] i.k = "loop" -> <<Tok("loop"), Brace(RenderBody(i.bs[1]))>>
    [] i.k = "while" -> <<Tok("while"), Tok("c1"), Brace(RenderBody(i.bs[1]))>>
    [] i.k = "for" -> <<Tok("for"), Tok("p1"), Tok("in"), Tok("it"),
                        Brace(RenderBody(i.bs[1]))>>
    [] i.k = "let" -> <<Tok("let"), Tok("v"), Tok("=")>> \o RenderBody(i.bs[1])
                        \o <<Tok(";")>>
    [] i.k = "lett" -> <<Tok("let"), Tok("v"), Tok(":"), Tok("T"), Tok("=")>>
                         \o RenderBody(i.bs[1]) \o <<Tok(";")>>
    [] i.k = "whilelet" -> <<Tok("while"), Tok("let"), Tok("p1"), Tok("="), Tok("it"),
                             Brace(RenderBody(i.bs[1]))>>
    [] i.k = "cu" -> <<Tok("."), Tok("push"),
                       Paren(<<Inv("using", (IF i.x = <<"w">> THEN <<Tok("w"), Tok("@")>>
                                             ELSE <<>>)
                                              \o <<Tok("mk2"), Paren(<<>>), Tok("=>"),
                                                    Brace(RenderBody(i.bs[1]))>>)>>),
                       Tok(";")>>
    [] i.k = "stn" -> <<Name, Tok("."), Tok("x"), Tok(";")>>
    [] i.k = "exc" -> <<Tok("f"), Paren(<<Tok("e")>>)>>
    [] i.k = "letn" -> <<Tok("let"), Tok("v"), Tok(";")>>
    [] i.k = "letelse" -> <<Tok("let"), Tok("v"), Tok("="), Tok("e"), Tok("else"),
                            Brace(<<Tok("e2")>>), Tok(";")>>
    [] i.k = "item" -> <<Tok("fn"), Tok("f"), Paren(<<>>), Brace(<<>>)>>

RenderBody(b) == IF b = <<>> THEN <<>> ELSE RenderItem(b[1]) \o RenderBody(Rest(b, 1))

\* Sequences over S of length at most n.
RECURSIVE SeqsUpTo(_, _)
SeqsUpTo(S, n) ==
  IF n = 0 THEN {<<>>}
  ELSE SeqsUpTo(S, n - 1)
         \cup {Append(q, e) : q \in {r \in SeqsUpTo(S, n - 1) : Len(r) = n - 1}, e \in S}

\* A chain statement, a trailing chain; a statement `e;`, an expression `e`,
\* a lone `;`, `break e;`; a construct with one body; if, match.
CS(ch) == Item("cs", ch, <<>>, <<>>)
CT(ch) == Item("ct", ch, <<>>, <<>>)
Plain(k) == Item(k, <<>>, <<>>, <<>>)
One(k, b) == Item(k, <<>>, <<b>>, <<>>)
If(bs, else) == Item("if", <<>>, bs, IF else THEN <<"else">> ELSE <<>>)
Match(bs, x) == Item("match", <<>>, bs, x)

\* Blocks made of chains only: statements, then one last chain item -- a
\* statement, a trailing chain, a chain and an operator, an assignment.
ChainStmts == SeqsUpTo({CS(<<"push">>), CS(<<"x", "sum">>)}, MaxStmts)
ChainBlocks ==
  {p \o l : p \in ChainStmts,
            l \in {<<>>, <<Plain("asg")>>}
                    \cup {<<Item(k, ch, <<>>, <<>>)>> :
                            k \in {"cs", "ct", "cop", "asg"},
                            ch \in SeqsUpTo(Accs, MaxChain) \ {<<>>}}}

\* One braced block of chains only.
NestedChainBlocks ==
  {<<One("blk", p \o l)>> : p \in ChainStmts, l \in {<<>>, <<CT(<<"sum">>)>>}}

\* The bodies of nested blocks, arms and loops: chains and expressions, or
\* one construct.
Leaf ==
  {<<>>, <<CS(<<"push">>)>>, <<CT(<<"sum">>)>>, <<CS(<<"push">>), CT(<<"x">>)>>,
   <<Plain("ex")>>}
Bodies ==
  Leaf \cup
  {<<One("blk", <<CT(<<"sum">>)>>)>>, <<One("blk", <<>>)>>,
   <<If(<<<<CT(<<"sum">>)>>, <<CT(<<"x">>)>>>>, TRUE)>>,
   <<If(<<<<CS(<<"push">>)>>>>, FALSE)>>,
   <<One("loop", <<Plain("brk")>>)>>,
   <<Match(<<<<CT(<<"sum">>)>>, <<Plain("ex")>>>>, <<"c,", "e">>)>>,
   <<One("while", <<CS(<<"push">>)>>)>>}

Matches ==
  {Match(<<<<CT(<<"push">>)>>, <<CT(<<"x", "sum">>)>>>>, x) :
     x \in {<<"c,", "c">>, <<"c,", "c,">>, <<"Gc,", "Gc">>, <<"Gc,", "c,">>}}
  \cup {Match(<<<<Plain("ex")>>, <<Plain("ex")>>>>, x) :
     x \in {<<"e,", "e">>, <<"e,", "e,">>, <<"Ge,", "Ge">>}}
  \cup {Match(<<b, <<CT(<<"push">>)>>, <<Plain("ex")>>>>, x) :
     b \in Leaf, x \in {<<"b", "c,", "e">>, <<"b,", "Gc,", "b">>, <<"Gb", "c,", "Gb,">>}}
  \cup {Match(<<>>, <<>>)}

\* The right-hand side of a let is one using-expression, with no `;` in it.
Constructs ==
  {One(k, b) : k \in {"blk", "loop", "while", "for"}, b \in Bodies}
  \cup {One(k, b) : k \in {"let", "lett"},
                    b \in {r \in Bodies : Len(r) = 1 /\ r[1].k # "cs"}}
  \cup {If(<<b>>, FALSE) : b \in Bodies}
  \cup {If(<<b, <<CT(<<"sum">>)>>>>, TRUE) : b \in Bodies}
  \cup {If(<<<<CS(<<"push">>)>>, b>>, TRUE) : b \in Leaf}
  \cup {If(<<b, <<CS(<<"push">>)>>, <<Plain("ex")>>>>, TRUE) : b \in Leaf}
  \cup {If(<<b, <<CS(<<"push">>)>>>>, FALSE) : b \in Leaf}
  \cup Matches

Trailing == {<<>>, <<CT(<<"sum">>)>>, <<Plain("ex")>>}

\* A construct with a statement before it or with statements after it, and
\* then the block's last item.
ConstructBlocks ==
  {p \o <<c>> \o l : p \in {<<>>, <<CS(<<"push">>)>>}, c \in Constructs, l \in Trailing}
  \cup {<<c>> \o t \o l :
          c \in Constructs,
          t \in SeqsUpTo({CS(<<"push">>), Plain("st"), Plain("semi")}, MaxTail),
          l \in Trailing}

\* Blocks in blocks; `while let`; a using! invocation as the argument of a
\* call; a statement that names the target; a call as the last expression;
\* let without initializer, let-else, an item; match arms that are chains
\* with a call of two generic arguments, bare and braced.
MoreBlocks ==
  {<<One("blk", <<One("let", <<CT(<<"sum">>)>>)>> \o l)>> : l \in {<<>>, <<CT(<<"x">>)>>}}
  \cup {<<One("blk", <<CS(<<"push">>), One("blk", <<CT(<<"sum">>)>>)>>)>>,
        <<One("blk", <<One("blk", <<CS(<<"push">>)>>), CT(<<"sum">>)>>)>>,
        <<One("blk", <<CS(<<"push">>), Plain("ex")>>)>>,
        <<One("blk", <<CS(<<"push">>), Plain("exc")>>)>>}
  \cup {p \o <<One("whilelet", b)>> \o l :
          p \in {<<>>, <<CS(<<"push">>)>>}, b \in Leaf, l \in {<<>>, <<CT(<<"sum">>)>>}}
  \cup {p \o <<Item("cu", <<>>, <<b>>, x)>> \o l :
          p \in {<<>>, <<CS(<<"push">>)>>},
          b \in {<<CS(<<"push">>), CT(<<"sum">>)>>, <<CS(<<"push">>)>>, <<CT(<<"x">>)>>},
          x \in {<<>>, <<"w">>},
          l \in {<<>>, <<CT(<<"sum">>)>>}}
  \cup {p \o <<Plain(k)>> \o l :
          p \in {<<>>, <<CS(<<"push">>)>>},
          k \in {"stn", "letn", "letelse", "item"},
          l \in {<<>>, <<Plain("semi")>>, <<Plain("st")>>, <<CT(<<"sum">>)>>}}
  \cup {p \o l : p \in SeqsUpTo({CS(<<"push">>), Plain("st"), Plain("semi")}, MaxStmts),
                  l \in {<<>>, <<Plain("exc")>>}}
  \cup {<<Match(<<<<CT(ch)>>, <<CT(<<"x">>)>>>>, x)>> \o l :
          ch \in {<<"conv">>, <<"x", "conv">>},
          x \in {<<"c,", "c">>, <<"b", "c,">>, <<"b,", "c">>, <<"Gc,", "c">>},
          l \in {<<>>, <<CT(<<"sum">>)>>}}
  \cup {<<Match(<<<<CT(<<"x">>)>>, <<CT(<<"conv">>)>>>>, x)>> :
          x \in {<<"c,", "c">>, <<"c,", "c,">>, <<"c,", "b">>, <<"c,", "Gc">>}}

\* The invocations: using!(mk() => { b }) and using!(vec @ mk() => { b }).
Invocations ==
  [b : ChainBlocks, n : BOOLEAN]
  \cup [b : MoreBlocks, n : BOOLEAN]
  \cup [b : NestedChainBlocks, n : {FALSE}]
  \cup [b : ConstructBlocks, n : {FALSE}]
  \cup [b : {<<c>> \o l : c \in Constructs, l \in Trailing}, n : {TRUE}]

Invocation(b, n) ==
  Inv("using", (IF n THEN <<Name, Tok("@")>> ELSE <<>>) \o E
                 \o <<Tok("=>"), Brace(RenderBody(b))>>)

-----------------------------------------------------------------------------
(* Specification *)

Init ==
  /\ \E i \in Invocations : ast = i.b /\ named = i.n
  /\ out = <<Invocation(ast, named)>>
  /\ pos = 1
  /\ status = "running"
  /\ pc = "using"
  /\ fired = {}

StepUsing ==
  /\ pc = "using"
  /\ Step(using(out[pos]))

StepMaybeTrailingExp ==
  /\ pc = "maybe_trailing_exp"
  /\ Step(maybe_trailing_exp(out[pos]))

StepEmpty ==
  /\ pc = "empty"
  /\ Step(empty(out[pos]))

StepInExp ==
  /\ pc = "in_exp"
  /\ Step(in_exp(out[pos]))

StepInLet ==
  /\ pc = "in_let"
  /\ Step(in_let(out[pos]))

StepInLetExp ==
  /\ pc = "in_let_exp"
  /\ Step(in_let_exp(out[pos]))

StepInIf ==
  /\ pc = "in_if"
  /\ Step(in_if(out[pos]))

StepInIfNext ==
  /\ pc = "in_if_next"
  /\ Step(in_if_next(out[pos]))

StepInMatch ==
  /\ pc = "in_match"
  /\ Step(in_match(out[pos]))

StepInMatchBody ==
  /\ pc = "in_match_body"
  /\ Step(in_match_body(out[pos]))

StepInMatchBodyInExp ==
  /\ pc = "in_match_body_in_exp"
  /\ Step(in_match_body_in_exp(out[pos]))

StepInWhile ==
  /\ pc = "in_while"
  /\ Step(in_while(out[pos]))

StepInFor ==
  /\ pc = "in_for"
  /\ Step(in_for(out[pos]))

Next ==
  \/ StepUsing
  \/ StepMaybeTrailingExp
  \/ StepEmpty
  \/ StepInExp
  \/ StepInLet
  \/ StepInLetExp
  \/ StepInIf
  \/ StepInIfNext
  \/ StepInMatch
  \/ StepInMatchBody
  \/ StepInMatchBodyInExp
  \/ StepInWhile
  \/ StepInFor

Spec == Init /\ [][Next]_vars

\* The compiler does not stop while an invocation is pending: it rewrites
\* it by the rule that matches or, when none does, reports the failure. A
\* step is possible exactly while status is running, and under Spec every
\* step taken is a step of Next.
FairSpec == Spec /\ WF_vars(Step(No) \/ Next)

-----------------------------------------------------------------------------
(* Reading an expansion                                                    *)
(*                                                                         *)
(* The text of a token stream: its tokens in order, a group between its    *)
(* delimiters, a captured fragment of several tokens between the marks     *)
(* (: and :) -- it is one operand whatever surrounds it -- and a captured  *)
(* fragment of one token as that token.                                    *)

Closer(d) == CASE d = "(" -> ")" [] d = "[" -> "]" [] d = "{" -> "}"

RECURSIVE Text(_)
TextOf(x) ==
  CASE x.k = "t" -> <<x.v>>
    [] x.k = "g" -> <<x.v>> \o Text(x.ts) \o <<Closer(x.v)>>
    [] x.k = "nt" -> IF Len(x.ts) = 1 THEN Text(x.ts)
                     ELSE <<"(:">> \o Text(x.ts) \o <<":)">>
    [] x.k = "call" -> <<x.v, "!", "(">> \o Text(x.ts) \o <<")">>

Text(ts) == IF ts = <<>> THEN <<>> ELSE TextOf(ts[1]) \o Text(Rest(ts, 1))

Count(w, t) == Cardinality({j \in 1..Len(t) : t[j] = w})

\* The position of the `}` that closes the `{` at position i of text t.
RECURSIVE Close(_, _, _)
Close(t, i, d) ==
  IF i > Len(t) THEN 0
  ELSE IF t[i] = "{" THEN Close(t, i + 1, d + 1)
  ELSE IF t[i] = "}" THEN (IF d = 1 THEN i ELSE Close(t, i + 1, d - 1))
  ELSE Close(t, i + 1, d)

\* The position of the first `;` from position i on that is in no inner block.
RECURSIVE Semi(_, _, _)
Semi(t, i, d) ==
  IF i > Len(t) THEN 0
  ELSE IF t[i] = ";" /\ d = 0 THEN i
  ELSE IF t[i] = "{" THEN Semi(t, i + 1, d + 1)
  ELSE IF t[i] = "}" THEN Semi(t, i + 1, d - 1)
  ELSE Semi(t, i + 1, d)

\* The value of a block expression: its final element, inside however many
\* blocks the expansion has wrapped it.
RECURSIVE ValueAt(_, _)
ValueAt(ts, n) ==
  IF n = 0 THEN <<>>
  ELSE IF IsTok(ts[n], "}") THEN ValueAt(ts, n - 1)
  ELSE Text(<<ts[n]>>)

Value == ValueAt(out, Len(out))

\* The expansion is one block expression.
SingleExpression ==
  /\ out # <<>>
  /\ Text(out)[1] = "{"
  /\ Close(Text(out), 1, 0) = Len(Text(out))

TargetName == IF named THEN Name.v ELSE "target"

\* { #[allow(unused_mut)] let mut t = E;
Header ==
  <<"{", "#", "[", "allow", "(", "unused_mut", ")", "]", "let", "mut", TargetName, "=",
    "(:">> \o Text(E) \o <<":)", ";">>

UnitText == <<"#", "[", "allow", "(", "unreachable_code", ")", "]", "(", ")">>

\* What follows the binding of the target, without the brace that closes
\* the expansion.
Body == SubSeq(Text(out), Len(Header) + 1, Len(Text(out)) - 1)

\* ((recv.a1).a2)...an, each accessor as it is written.
RECURSIVE Fold(_, _)
Fold(recv, ch) ==
  IF ch = <<>> THEN recv
  ELSE Fold(<<"(:">> \o recv \o Text(AccToks(ch[1])) \o <<":)">>, Rest(ch, 1))

\* The expansion expected of a block of chains, statements and lone `;`,
\* with an optional last chain or expression: each statement opens a block
\* that holds the rest; end is what an exhausted block yields.
RECURSIVE Stmts(_, _)
Stmts(b, end) ==
  IF b = <<>> THEN end
  ELSE CASE b[1].k = "cs" ->
              <<"{">> \o Fold(<<TargetName>>, b[1].ch) \o <<";">>
                \o Stmts(Rest(b, 1), end) \o <<"}">>
         [] b[1].k = "st" -> <<"{", "e">> \o Stmts(Rest(b, 1), end) \o <<"}">>
         [] b[1].k = "semi" -> <<"{", ";">> \o Stmts(Rest(b, 1), end) \o <<"}">>
         [] b[1].k = "ct" -> Fold(<<TargetName>>, b[1].ch)
         [] b[1].k = "ex" -> <<"e">>

AllOf(b, kinds) == \A j \in 1..Len(b) : b[j].k \in kinds

\* if with a final else, match and loop: the constructs that have a value.
IsTemp(i) == i.k \in {"match", "loop"} \/ (i.k = "if" /\ i.x = <<"else">>)

\* The only item of the block is a braced block.
OneBlock == Len(ast) = 1 /\ ast[1].k = "blk"

-----------------------------------------------------------------------------
(* C1 *)

\* The value the block b yields by the kind of its last item: a trailing
\* chain or expression; the value of a last braced block, which is a nested
\* block; the temporary of a last if/else, match or loop; else dflt.
RECURSIVE LastValue(_, _)
LastValue(b, dflt) ==
  IF b = <<>> THEN dflt
  ELSE CASE Last(b).k = "ct" -> Fold(<<TargetName>>, Last(b).ch)
         [] Last(b).k = "ex" -> <<"e">>
         [] Last(b).k = "exc" -> <<"(:", "f", "(", "e", ")", ":)">>
         [] Last(b).k = "blk" -> LastValue(Last(b).bs[1], <<"(", ")">>)
         [] IsTemp(Last(b)) -> <<"_tmp">>
         [] OTHER -> dflt

\* The value when every block without a trailing chain or expression
\* yielded the target.
StatedValue(b) ==
  IF b # <<>> /\ Last(b).k = "ct" THEN Fold(<<TargetName>>, Last(b).ch)
  ELSE IF b # <<>> /\ Last(b).k = "ex" THEN <<"e">>
  ELSE IF b # <<>> /\ Last(b).k = "exc" THEN <<"(:", "f", "(", "e", ")", ":)">>
  ELSE <<TargetName>>

\* C1 as stated: an accepted invocation expands to one expression whose value
\* is the block's trailing chain or expression and otherwise the target,
\* whatever the last statement is (chain statement, braced block, if/else,
\* match, loop, while, for).
C1_AsStated ==
  status = "done" => SingleExpression /\ Value = StatedValue(ast)

\* C1, amended: an accepted invocation expands to one expression; its value
\* is the trailing chain or expression, the result of a last braced block,
\* the temporary of a last if/else, match or loop, and the target when the
\* block is empty or ends with a `;`-terminated statement, a lone `;`, a let,
\* an if without else, a while or a for.
C1_Value ==
  status = "done" => SingleExpression /\ Value = LastValue(ast, <<TargetName>>)

C1_Witness ==
  /\ status = "done"
  /\ ast # <<>> /\ Last(ast).k = "while"
  /\ Value = <<TargetName>>
  /\ 363 \in fired

-----------------------------------------------------------------------------
(* C2 *)

\* C2: in a block of chains, every chain a1..an is folded to
\* ((target.a1).a2)...an -- the accessors written, in order, once each, on
\* the preceding receiver, arguments and generic arguments unchanged.
C2_Fold ==
  status = "done" /\ AllOf(ast, {"cs", "ct"})
    => Text(out) = Header \o Stmts(ast, <<TargetName>>) \o <<"}">>

C2_Witness ==
  /\ status = "done"
  /\ Len(ast) > 1 /\ AllOf(ast, {"cs", "ct"})
  /\ Last(ast).ch = <<"x", "conv">>
  /\ {385, 389} \subseteq fired

-----------------------------------------------------------------------------
(* C3 *)

\* C3: E occurs once in the expansion, at every stage of it, and from the
\* first step on as the initializer of the target binding.
C3_Once ==
  status # "failed"
    => /\ Count("mk", Text(out)) = 1
       /\ fired # {} => SubSeq(Text(out), 1, Len(Header)) = Header

C3_Witness ==
  /\ status = "done"
  /\ Len(ast) = 3 /\ ast[1].k = "cs" /\ ast[2].k = "match" /\ ast[3].k = "ct"

-----------------------------------------------------------------------------
(* C4 *)

\* C4: a Root block of `;`-terminated chain statements (or empty) expands to
\* the statements in order and then the target; the same statements as a
\* braced (Nested) block end in unit.
C4_Statements ==
  status = "done"
    => /\ AllOf(ast, {"cs"})
            => /\ Value = <<TargetName>>
               /\ Body = Stmts(ast, <<TargetName>>)
       /\ OneBlock /\ AllOf(ast[1].bs[1], {"cs"})
            => /\ Value = <<"(", ")">>
               /\ Body = Stmts(ast[1].bs[1], UnitText)

C4_Witness ==
  /\ status = "done"
  /\ OneBlock /\ Len(ast[1].bs[1]) = 2 /\ AllOf(ast[1].bs[1], {"cs"})
  /\ Value = <<"(", ")">>
  /\ 367 \in fired

-----------------------------------------------------------------------------
(* C5 *)

\* A chain at the end of the Root block, or of a braced block that is the
\* Root block's only item, is the value of the expansion.
C5_Result ==
  status = "done"
    => /\ ast # <<>> /\ Last(ast).k = "ct"
            => Value = Fold(<<TargetName>>, Last(ast).ch)
       /\ OneBlock /\ ast[1].bs[1] # <<>> /\ Last(ast[1].bs[1]).k = "ct"
            => Value = Fold(<<TargetName>>, Last(ast[1].bs[1]).ch)

\* A chain followed by `;` becomes the statement `chain;` and the rest of
\* the input is parsed in state empty with the same target and scope.
C5_Statement ==
  pc = "in_exp" /\ Input(out[pos]) # <<>> /\ IsTok(Input(out[pos])[1], ";")
    => /\ pc' = "empty"
       /\ Text(out') =
            Text(SubSeq(out, 1, pos - 1))
              \o <<"{", "(:">> \o Text(Mid(out[pos], 1)) \o <<":)", ";">>
              \o Text(<<Impl(Target(out[pos]), Scope(out[pos]), "empty", <<>>,
                             Rest(Input(out[pos]), 1))>>)
              \o <<"}">> \o Text(Rest(out, pos))

\* C5: a chain followed by end-of-block is the block's result, in Root and
\* in Nested scope, whatever precedes it; a chain followed by `;` is a
\* statement and parsing resumes in state empty, same scope and target.
C5_Chain == []C5_Result /\ [][C5_Statement]_vars

C5_Witness ==
  /\ status = "done"
  /\ OneBlock /\ Len(ast[1].bs[1]) = 3 /\ Last(ast[1].bs[1]).k = "ct"
  /\ {393, 397} \subseteq fired

-----------------------------------------------------------------------------
(* C6 *)

\* C6: a block of chain statements whose last one is `.y = e;` (on the
\* target or after accessors) is accepted.
C6_Accepted ==
  ast # <<>> /\ Last(ast).k = "asg" => status # "failed"

-----------------------------------------------------------------------------
(* C7 *)

\* In chain state a token that is no `.` and no `;` fails the expansion.
C7_Step ==
  /\ pc = "in_exp"
  /\ Input(out[pos]) # <<>>
  /\ ~IsTok(Input(out[pos])[1], ".")
  /\ ~IsTok(Input(out[pos])[1], ";")
  => status' = "failed" /\ out' = <<>>

\* A chain followed by an operator is never expanded; a failed expansion has
\* no output; no expansion holds the operator.
C7_State ==
  /\ (ast # <<>> /\ Last(ast).k = "cop") => status # "done"
  /\ status = "failed" => out = <<>>
  /\ status = "done" => Count("+", Text(out)) = 0

\* C7: in chain state any continuation other than `.` identifier, `;` or
\* end-of-block (such as `+ e`) matches no rule and the whole expansion
\* fails with no output; no accepted chain holds a non-accessor operator.
C7_Rejected == []C7_State /\ [][C7_Step]_vars

C7_Witness ==
  /\ status = "failed"
  /\ out = <<>>
  /\ Last(ast).k = "cop" /\ Last(ast).ch = <<"push", "x">>

-----------------------------------------------------------------------------
(* C8 *)

\* The value of the right-hand side of the let that starts the block: the
\* last element of the block the right-hand side expands to.
LetValue ==
  IF Len(Body) >= 7 /\ Body[7] = "{" /\ Close(Body, 7, 0) > 0
  THEN <<Body[Close(Body, 7, 0) - 1], Body[Close(Body, 7, 0) + 1]>>
  ELSE <<>>

\* C8: an if/else, match or loop that is the last element of its block --
\* the Root block, a braced block, the right-hand side of a let -- makes the
\* temporary bound to the construct the block's result.
C8_Temporary ==
  status = "done"
    => /\ ast # <<>> /\ IsTemp(Last(ast)) => Value = <<"_tmp">>
       /\ Len(ast) = 1 /\ IsTemp(ast[1])
            => SubSeq(Body, 1, 5) = <<"{", "let", "_tmp", "=", ast[1].k>>
       /\ OneBlock /\ ast[1].bs[1] # <<>> /\ IsTemp(Last(ast[1].bs[1]))
            => Value = <<"_tmp">>
       /\ ast # <<>> /\ ast[1].k \in {"let", "lett"} /\ IsTemp(ast[1].bs[1][1])
            => LetValue = <<"_tmp", ";">>

C8_Witness ==
  /\ status = "done"
  /\ ast # <<>> /\ ast[1].k = "let" /\ ast[1].bs[1][1].k = "loop"
  /\ LetValue = <<"_tmp", ";">>
  /\ 349 \in fired

-----------------------------------------------------------------------------
(* C9 *)

\* What follows the construct that starts the block, without the `;` that
\* may separate them.
Remainder ==
  IF Len(ast) > 1 /\ ast[2].k = "semi" THEN Rest(ast, 2) ELSE Rest(ast, 1)

\* The expansion of what follows the binding of the temporary.
AfterTemp == SubSeq(Body, Semi(Body, 2, 0) + 1, Len(Body) - 1)

\* After a construct that has a value and is not last, the rest of the
\* block is expanded as it is without the construct, on the target; a `;`
\* between the two changes nothing.
C9_Result ==
  status = "done" /\ Len(ast) > 1 /\ IsTemp(ast[1])
    => /\ SubSeq(Body, 1, 4) = <<"{", "let", "_tmp", "=">>
       /\ AfterTemp = Stmts(Remainder, <<TargetName>>)

\* The maybe-trailing decision on input that has not ended: the input, less
\* a leading `;`, is parsed in state empty with the same target and scope.
C9_Step ==
  pc = "maybe_trailing_exp" /\ Input(out[pos]) # <<>>
    => /\ pc' = "empty"
       /\ out' = Splice(<<Impl(Target(out[pos]), Scope(out[pos]), "empty", <<>>,
                               IF IsTok(Input(out[pos])[1], ";")
                               THEN Rest(Input(out[pos]), 1)
                               ELSE Input(out[pos]))>>)

\* C9: an if/else, match or loop followed by `;` or by any other token has
\* its temporary discarded and parsing continues in state empty, same scope
\* and target; a chain right after it is rooted at the target; the remainder
\* expands the same with and without the `;`.
C9_Continue == []C9_Result /\ [][C9_Step]_vars

C9_Witness ==
  /\ status = "done"
  /\ Len(ast) = 2 /\ ast[1].k = "if" /\ IsTemp(ast[1]) /\ ast[2].k = "ct"
  /\ Value = Fold(<<TargetName>>, ast[2].ch)
  /\ 357 \in fired

-----------------------------------------------------------------------------
(* C10 *)

\* The arms expected of match m from the j-th on: pattern, guard, and the
\* body as a nested block, each followed by `,`.
RECURSIVE ArmsText(_, _)
ArmsText(m, j) ==
  IF j > Len(m.bs) THEN <<>>
  ELSE <<Pats[j]>>
         \o (IF m.x[j] \in Guarded THEN <<"if", "gd">> ELSE <<>>)
         \o <<"=>", "{">> \o Stmts(m.bs[j], UnitText) \o <<"}", ",">>
         \o ArmsText(m, j + 1)

\* C10: the emitted match has the arms written -- same pattern and guard,
\* same order, none dropped or repeated -- for chain, expression and braced
\* bodies with and without `,`; each body is expanded as a nested block on
\* the same target; a chain after the match is applied to the target.
C10_Arms ==
  status = "done" /\ ast # <<>> /\ ast[1].k = "match"
    => /\ SubSeq(Body, 1, Semi(Body, 2, 0)) =
            <<"{", "let", "_tmp", "=", "match", "s", "{">>
              \o ArmsText(ast[1], 1) \o <<"}", ";">>
       /\ AfterTemp = IF Len(ast) = 1 THEN <<"_tmp">>
                      ELSE Stmts(Remainder, <<TargetName>>)

C10_Witness ==
  /\ status = "done"
  /\ Len(ast) = 2 /\ ast[1].k = "match" /\ ast[1].x = <<"Gb", "c,", "Gb,">>
  /\ ast[1].bs[1] = <<CS(<<"push">>), CT(<<"x">>)>>
  /\ ast[2].k = "ct"
  /\ {588, 602, 646, 658, 694} \subseteq fired

-----------------------------------------------------------------------------
(* The expansion of a block, construct by construct                        *)
(*                                                                         *)
(* Expected(b, end) is the text the block b is to expand to when an        *)
(* exhausted block yields end: the target in Root scope, unit in Nested    *)
(* scope.  Every statement opens a block that holds the rest of the input. *)

RECURSIVE Expected(_, _)
RECURSIVE Branches(_, _)
RECURSIVE ExpectedArms(_, _)

\* if c1 { .. } else if c2 { .. } ... [else { .. }], from the j-th branch on
Branches(i, j) ==
  IF j > Len(i.bs) THEN <<>>
  ELSE (IF j = 1 THEN <<"if", "c1">>
        ELSE IF j = Len(i.bs) /\ i.x = <<"else">> THEN <<"else">>
        ELSE <<"else", "if", "c2">>)
         \o <<"{">> \o Expected(i.bs[j], UnitText) \o <<"}">>
         \o Branches(i, j + 1)

\* p if gd => { .. }, for the arms from the j-th on
ExpectedArms(m, j) ==
  IF j > Len(m.bs) THEN <<>>
  ELSE <<Pats[j]>>
         \o (IF m.x[j] \in Guarded THEN <<"if", "gd">> ELSE <<>>)
         \o <<"=>", "{">> \o Expected(m.bs[j], UnitText) \o <<"}", ",">>
         \o ExpectedArms(m, j + 1)

\* The construct itself, for the constructs that keep their keyword.
Construct(i) ==
  CASE i.k = "if" -> Branches(i, 1)
    [] i.k = "match" -> <<"match", "s", "{">> \o ExpectedArms(i, 1) \o <<"}">>
    [] i.k = "loop" -> <<"loop", "{">> \o Expected(i.bs[1], UnitText) \o <<"}">>
    [] i.k = "while" ->
         <<"while", "c1", "{">> \o Expected(i.bs[1], UnitText) \o <<"}">>
    [] i.k = "whilelet" ->
         <<"while", "let", "p1", "=", "it", "{">> \o Expected(i.bs[1], UnitText)
           \o <<"}">>
    [] i.k = "for" ->
         <<"for", "p1", "in", "it", "{">> \o Expected(i.bs[1], UnitText) \o <<"}">>

\* The inner invocation using!([w @] mk2() => { b }) of item i expands on its
\* own: it binds its own target and folds its chains on it.
InnerName(i) == IF i.x = <<"w">> THEN "w" ELSE "target"

InnerHeader(i) ==
  <<"{", "#", "[", "allow", "(", "unused_mut", ")", "]", "let", "mut", InnerName(i),
    "=", "(:", "mk2", "(", ")", ":)", ";">>

RECURSIVE ChainsOn(_, _)
ChainsOn(t, b) ==
  IF b = <<>> THEN <<t>>
  ELSE IF b[1].k = "ct" THEN Fold(<<t>>, b[1].ch)
  ELSE <<"{">> \o Fold(<<t>>, b[1].ch) \o <<";">> \o ChainsOn(t, Rest(b, 1)) \o <<"}">>

\* What follows the binding of a temporary: the temporary when the block
\* ends there, else the rest of the block less one leading `;`.
AfterTmp(r, end) ==
  IF r = <<>> THEN <<"_tmp">>
  ELSE IF r[1].k = "semi" THEN Expected(Rest(r, 1), end)
  ELSE Expected(r, end)

Expected(b, end) ==
  IF b = <<>> THEN end
  ELSE CASE b[1].k = "cs" ->
              <<"{">> \o Fold(<<TargetName>>, b[1].ch) \o <<";">>
                \o Expected(Rest(b, 1), end) \o <<"}">>
         [] b[1].k = "ct" -> Fold(<<TargetName>>, b[1].ch)
         [] b[1].k = "st" -> <<"{", "e">> \o Expected(Rest(b, 1), end) \o <<"}">>
         [] b[1].k = "brk" ->
              <<"{", "(:", "break", "e", ":)">> \o Expected(Rest(b, 1), end) \o <<"}">>
         [] b[1].k = "semi" -> <<"{", ";">> \o Expected(Rest(b, 1), end) \o <<"}">>
         [] b[1].k = "ex" -> <<"e">>
         [] b[1].k = "exc" -> <<"(:", "f", "(", "e", ")", ":)">>
         [] b[1].k = "item" ->
              <<"{", "(:", "fn", "f", "(", ")", "{", "}", ":)">>
                \o Expected(Rest(b, 2), end) \o <<"}">>
         [] b[1].k = "stn" ->
              <<"{", "(:", Name.v, ".", "x", ":)">> \o Expected(Rest(b, 1), end) \o <<"}">>
         [] b[1].k = "cu" ->
              <<"{", "(:", TargetName, ".", "push", "(">>
                \o InnerHeader(b[1]) \o ChainsOn(InnerName(b[1]), b[1].bs[1])
                \o <<"}", ")", ":)", ";">> \o Expected(Rest(b, 1), end) \o <<"}">>
         [] b[1].k = "blk" ->
              IF Len(b) = 1 THEN Expected(b[1].bs[1], UnitText)
              ELSE <<"{">> \o Expected(b[1].bs[1], UnitText) \o <<";">>
                     \o Expected(Rest(b, 1), end) \o <<"}">>
         [] b[1].k \in {"let", "lett"} ->
              <<"{", "let", "v", ":", IF b[1].k = "lett" THEN "T" ELSE "_", "=">>
                \o Expected(b[1].bs[1], UnitText) \o <<";">>
                \o Expected(Rest(b, 1), end) \o <<"}">>
         [] IsTemp(b[1]) ->
              <<"{", "let", "_tmp", "=">> \o Construct(b[1]) \o <<";">>
                \o AfterTmp(Rest(b, 1), end) \o <<"}">>
         [] OTHER ->
              <<"{">> \o Construct(b[1]) \o Expected(Rest(b, 1), end) \o <<"}">>

\* The invocation to which the rule that has just rewritten out[pos] hands
\* the rest of its input: the last element of what it emitted.
Handed == out'[Len(out') - (Len(out) - pos) - 1]

\* The braced block that is the Root block's only item.
Inner == ast[1].bs[1]

-----------------------------------------------------------------------------
(* C11 *)

\* let v [: T] = R ; rest, at the start of block b whose end yields end.
LetText(b, end) ==
  <<"{", "let", "v", ":", IF b[1].k = "lett" THEN "T" ELSE "_", "=">>
    \o Expected(b[1].bs[1], UnitText) \o <<";">>
    \o Expected(Rest(b, 1), end) \o <<"}">>

\* The let that starts the Root block, or a braced block, binds v, with the
\* type written or `_`, to the right-hand side expanded as a Nested block;
\* the rest is inside the binding's block and ends as its own block ends.
C11_Bound ==
  status = "done" /\ ast # <<>>
    => /\ ast[1].k \in {"let", "lett"} => Body = LetText(ast, <<TargetName>>)
       /\ OneBlock /\ Inner # <<>> /\ Inner[1].k = "let" => Body = LetText(Inner, UnitText)

\* At the first `;` outside braces the tokens read so far are the
\* right-hand side, handed to a Nested block on the same target; the rest
\* is handed on in state empty, same target and scope.
C11_Step ==
  pc = "in_let_exp" /\ Input(out[pos]) # <<>> /\ IsTok(Input(out[pos])[1], ";")
    => /\ out'[pos + 6] = Impl(Target(out[pos]), Tok("block"), "empty", <<>>,
                               Mid(out[pos], 3))
       /\ Handed = Impl(Target(out[pos]), Scope(out[pos]), "empty", <<>>,
                        Rest(Input(out[pos]), 1))

\* C11: in `let P [: T] = R ; rest`, R runs to the first top-level `;` and
\* is expanded as a fresh Nested block on the same target (a chain, a braced
\* block, an if, match or loop); P and T are emitted unchanged, T being `_`
\* when absent; rest is expanded inside the binding's scope, under the
\* enclosing block's scope kind.
C11_Let == []C11_Bound /\ [][C11_Step]_vars

C11_Witness ==
  /\ status = "done"
  /\ Len(ast) = 2 /\ ast[1].k = "lett" /\ ast[1].bs[1][1].k = "loop" /\ ast[2].k = "ct"
  /\ {426, 437, 451, 463} \subseteq fired

-----------------------------------------------------------------------------
(* C12 *)

\* The loop as written up to its body.
LoopHead(i) ==
  CASE i.k = "while" -> <<"while", "c1">>
    [] i.k = "whilelet" -> <<"while", "let", "p1", "=", "it">>
    [] i.k = "for" -> <<"for", "p1", "in", "it">>

\* A while, while let or for that starts the Root block is emitted with its
\* head as written and its body as a Nested block, as a statement with no
\* temporary; the rest follows in the same block and ends with the target.
C12_Loop ==
  status = "done" /\ ast # <<>> /\ ast[1].k \in {"while", "whilelet", "for"}
    => /\ Body = <<"{">> \o LoopHead(ast[1]) \o <<"{">>
                   \o Expected(ast[1].bs[1], UnitText) \o <<"}">>
                   \o Expected(Rest(ast, 1), <<TargetName>>) \o <<"}">>
       /\ Len(ast) = 1 => Value = <<TargetName>>
       /\ fired \cap {349, 353, 357} # {}
            => \E j \in 1..Len(ast) : ast[j].k \notin {"while", "whilelet", "for"}
                                         \/ ast[j].bs[1] \notin Leaf

\* At the loop's body the rest of the input is handed on in state empty,
\* same target and scope.
C12_Step ==
  pc \in {"in_while", "in_for"} /\ Input(out[pos]) # <<>> /\ IsBrace(Input(out[pos])[1])
    => /\ pc' = "empty"
       /\ Handed = Impl(Target(out[pos]), Scope(out[pos]), "empty", <<>>,
                        Rest(Input(out[pos]), 1))

\* C12: while, while let and for expand to the host loop, condition, pattern
\* and iterator unchanged, the body a Nested block whose value is not used;
\* there is no temporary and no maybe-trailing decision; parsing continues
\* in state empty under the same scope, so that a Root block ending in a
\* while or for yields the target.
C12_WhileFor == []C12_Loop /\ [][C12_Step]_vars

C12_Witness ==
  /\ status = "done"
  /\ Len(ast) = 1 /\ ast[1].k = "whilelet" /\ ast[1].bs[1] = <<CS(<<"push">>), CT(<<"x">>)>>
  /\ Value = <<TargetName>>
  /\ {720, 724, 736} \subseteq fired

-----------------------------------------------------------------------------
(* C13 *)

\* C13: a braced block that is the last element of the Root block gives the
\* Root block its result: its trailing value, and unit -- not the target --
\* when it has none, as in a Root block that is one `{ }`.
C13_RootBlock ==
  status = "done" /\ ast # <<>> /\ Last(ast).k = "blk"
    => /\ Value = LastValue(Last(ast).bs[1], <<"(", ")">>)
       /\ Value # <<TargetName>>
       /\ Len(ast) = 1 => Body = Expected(Inner, UnitText)

C13_Witness ==
  /\ status = "done"
  /\ ast = <<One("blk", <<>>)>>
  /\ Value = <<"(", ")">>
  /\ {413, 367} \subseteq fired

-----------------------------------------------------------------------------
(* C14 *)

\* The expansion of the right-hand side of the let that starts the block.
RhsText == SubSeq(Body, 7, Semi(Body, 2, 0) - 1)

\* The right-hand side of the let that starts the block is one braced block.
LetOfBlock ==
  /\ ast # <<>> /\ ast[1].k \in {"let", "lett"}
  /\ ast[1].bs[1][1].k = "blk"

\* The Root block is one braced block whose last element is a braced block.
BlockInBlock == OneBlock /\ Inner # <<>> /\ Last(Inner).k = "blk"

\* C14 as stated: a braced block that is the last element of a Nested block
\* has its result discarded, and the Nested block yields unit.
C14_AsStated ==
  status = "done"
    => /\ LetOfBlock
            => RhsText = <<"{">> \o Expected(ast[1].bs[1][1].bs[1], UnitText) \o <<";">>
                           \o UnitText \o <<"}">>
       /\ BlockInBlock => Value = <<"(", ")">>

\* C14, amended: a braced block that is the last element of a Nested block
\* (the right-hand side of a let, a braced block) gives the Nested block its
\* result: its trailing value, and unit when it has none.
C14_Inner ==
  status = "done"
    => /\ LetOfBlock => RhsText = Expected(ast[1].bs[1][1].bs[1], UnitText)
       /\ BlockInBlock => Value = LastValue(Last(Inner).bs[1], <<"(", ")">>)

C14_Witness ==
  /\ status = "done"
  /\ Len(ast) = 2 /\ ast[1] = One("let", <<One("blk", <<CT(<<"sum">>)>>)>>)
  /\ RhsText = Fold(<<TargetName>>, <<"sum">>)
  /\ {413, 451} \subseteq fired

-----------------------------------------------------------------------------
(* C15 *)

\* { b } rest, at the start of block r whose end yields end: the braced
\* block as a Nested block and a statement, then the rest.
BlockText(r, end) ==
  <<"{">> \o Expected(r[1].bs[1], UnitText) \o <<";">>
    \o Expected(Rest(r, 1), end) \o <<"}">>

\* A braced block with input after it is a statement between what precedes
\* and what follows it, in the Root block and in a braced block.
C15_Order ==
  status = "done" /\ Len(ast) >= 1
    => /\ Len(ast) > 1 /\ ast[1].k = "blk" => Body = BlockText(ast, <<TargetName>>)
       /\ Len(ast) > 2 /\ ast[1].k = "cs" /\ ast[2].k = "blk"
            => Body = <<"{">> \o Fold(<<TargetName>>, ast[1].ch) \o <<";">>
                        \o BlockText(Rest(ast, 1), <<TargetName>>) \o <<"}">>
       /\ OneBlock /\ Len(Inner) > 1 /\ Inner[1].k = "blk"
            => Body = BlockText(Inner, UnitText)

\* The braced block is handed to a Nested block on the same target and the
\* rest is handed on in state empty, same target and scope.
C15_Step ==
  pc = "empty" /\ Len(Input(out[pos])) > 1 /\ IsBrace(Input(out[pos])[1])
    => /\ out'[pos + 1] = Impl(Target(out[pos]), Tok("block"), "empty", <<>>,
                               Input(out[pos])[1].ts)
       /\ out'[pos + 2] = Tok(";")
       /\ Handed = Impl(Target(out[pos]), Scope(out[pos]), "empty", <<>>,
                        Rest(Input(out[pos]), 1))

\* C15: a braced block followed by further input is expanded as a Nested
\* block whose value is discarded; parsing continues with the input that
\* follows, under the same scope and target; its chains act on the target
\* after the statements before it and before the statements after it.
C15_Block == []C15_Order /\ [][C15_Step]_vars

C15_Witness ==
  /\ status = "done"
  /\ Len(ast) = 3 /\ ast[1] = One("blk", <<CT(<<"sum">>)>>)
  /\ ast[2].k = "cs" /\ ast[3].k = "ct"
  /\ 417 \in fired

-----------------------------------------------------------------------------
(* C16 *)

\* The block holds a call whose argument is a using! invocation.
HasInner(b) == \E j \in 1..Len(b) : b[j].k = "cu"

\* The using! invocation written as the argument of the call of block b.
Written(b) == RenderItem(b[CHOOSE j \in 1..Len(b) : b[j].k = "cu"])[3].ts[1]

\* x occurs in ts, at any depth.
RECURSIVE Holds(_, _)
Holds(ts, x) == \E j \in 1..Len(ts) : ts[j] = x \/ Holds(ts[j].ts, x)

\* The outer call has the inner expansion as its argument: a block that
\* binds the inner target to mk2() and folds the inner chains on it; the
\* outer chains are on the outer target.
C16_Argument ==
  status = "done" /\ HasInner(ast)
    => /\ Body = Expected(ast, <<TargetName>>)
       /\ Count("mk2", Text(out)) = 1 /\ Count("mk", Text(out)) = 1
       /\ Count("using", Text(out)) = 0
       /\ Last(ast).k = "ct" => Value = Fold(<<TargetName>>, Last(ast).ch)

\* The inner invocation stays as written until the using! rules expand it:
\* no step of the outer parser changes it.
C16_Step ==
  HasInner(ast) /\ Holds(out, Written(ast)) /\ ~Holds(out', Written(ast))
    => pc = "using" /\ out[pos] = Written(ast)

\* C16: a using! invocation in the argument list of a call of an outer
\* chain is not inspected or rewritten by the outer parser; its chains fold
\* on its own target, the outer chains on the outer target, and its value
\* is the argument of the outer call.
C16_Nested == []C16_Argument /\ [][C16_Step]_vars

C16_Witness ==
  /\ status = "done"
  /\ ~named
  /\ ast = <<CS(<<"push">>),
             Item("cu", <<>>, <<<<CS(<<"push">>), CT(<<"sum">>)>>>>, <<>>),
             CT(<<"sum">>)>>
  /\ Count("mk2", Text(out)) = 1
  /\ {330, 385, 397} \subseteq fired

-----------------------------------------------------------------------------
(* C17 *)

\* The receiver at which the folded expression t starts.
RECURSIVE RootOf(_)
RootOf(t) == IF t[1] = "(:" THEN RootOf(Rest(t, 1)) ELSE t[1]

\* C17: all through an expansion every pending using_impl! invocation has
\* the target the using! rule bound -- the caller's identifier when
\* `name @ expr` is used, `target` otherwise -- and every chain under way
\* starts at it; the target is bound once; in the expansion every chain, at
\* every depth, is folded on it.
C17_OneTarget ==
  ~HasInner(ast)
    => /\ \A j \in 1..Len(out) :
            out[j].k = "call" /\ out[j].v = "using_impl"
              => /\ Target(out[j]) = Tok(TargetName)
                 /\ State(out[j]) = "in_exp"
                      => RootOf(Text(Mid(out[j], 1))) = TargetName
       /\ status = "done"
            => /\ Body = Expected(ast, <<TargetName>>)
               /\ Count("mut", Text(out)) = 1
               /\ named => Count("target", Text(out)) = 0

C17_Witness ==
  /\ status = "done"
  /\ named
  /\ Len(ast) = 2 /\ ast[1].k = "match" /\ ast[1].x = <<"b", "c,", "e">>
  /\ ast[2].k = "ct"
  /\ 337 \in fired

-----------------------------------------------------------------------------
(* C18 *)

ExprText(i) == IF i.k = "ex" THEN <<"e">> ELSE <<"(:", "f", "(", "e", ")", ":)">>

\* A last expression `e` or `f(e)` is the result of the Root block and of a
\* braced block, after the statements before it.
C18_Result ==
  status = "done" /\ ast # <<>>
    => /\ Last(ast).k \in {"ex", "exc"}
            => /\ Value = ExprText(Last(ast))
               /\ Body = Expected(ast, <<TargetName>>)
       /\ OneBlock /\ Inner # <<>> /\ Last(Inner).k \in {"ex", "exc"}
            => /\ Value = ExprText(Last(Inner))
               /\ Body = Expected(Inner, UnitText)

\* In state empty an input that is the expression alone is replaced by the
\* expression, whatever the scope.
C18_Step ==
  pc = "empty" /\ Input(out[pos]) \in {RenderItem(Plain("ex")), RenderItem(Plain("exc"))}
    => Text(out') = Text(SubSeq(out, 1, pos - 1))
                      \o (IF Len(Input(out[pos])) = 1 THEN Text(Input(out[pos]))
                          ELSE <<"(:">> \o Text(Input(out[pos])) \o <<":)">>)
                      \o Text(Rest(out, pos))

\* C18: when what remains of a block is one ordinary expression, it is
\* emitted unchanged as the block's result, in Root and in Nested scope,
\* after all the statements before it.
C18_Expression == []C18_Result /\ [][C18_Step]_vars

C18_Witness ==
  /\ status = "done"
  /\ ast = <<One("blk", <<CS(<<"push">>), Plain("exc")>>)>>
  /\ Value = <<"(:", "f", "(", "e", ")", ":)">>
  /\ {413, 779} \subseteq fired

-----------------------------------------------------------------------------
(* C19 *)

\* The block is made of host statements only: `e;`, `vec.x;`, a lone `;`,
\* `let v = e;`, `let v;`, `let v = e else { e2 };`, `fn f() { }`, and a last
\* expression.
HostOnly(b) ==
  \A j \in 1..Len(b) :
    \/ b[j].k \in {"st", "stn", "semi", "ex", "exc", "letn", "letelse", "item"}
    \/ b[j].k \in {"let", "lett"} /\ b[j].bs[1] = <<Plain("ex")>>

\* C19: a block of host statements that hold no target expression is
\* accepted whatever they begin with: expression statements, let with and
\* without initializer, let-else, items that end without `;`.
C19_Accepted ==
  HostOnly(ast) => status # "failed"

-----------------------------------------------------------------------------
(* C20 *)

\* The step that has read an if to its last branch, a match to its last
\* arm, or a loop.
IfRead ==
  /\ pc = "in_if_next"
  /\ ~(Len(Input(out[pos])) >= 2 /\ IsTok(Input(out[pos])[1], "else")
         /\ IsTok(Input(out[pos])[2], "if"))

HasElse == Input(out[pos]) # <<>> /\ IsTok(Input(out[pos])[1], "else")

MatchRead == pc = "in_match_body" /\ HasArms(out[pos]) /\ Arms(out[pos]) = <<>>

LoopRead ==
  /\ pc = "empty"
  /\ Len(Input(out[pos])) >= 2
  /\ IsTok(Input(out[pos])[1], "loop") /\ IsBrace(Input(out[pos])[2])

\* The construct is bound to the temporary and the rest of the input is
\* handed to the maybe-trailing decision, same target and scope.
Decision ==
  /\ SubSeq(out', pos + 1, pos + 3) = <<Tok("let"), Tmp, Tok("=")>>
  /\ State(Handed) = "maybe_trailing_exp"
  /\ Mid(Handed, 1) = <<Tmp>>
  /\ Target(Handed) = Target(out[pos])
  /\ Scope(Handed) = Scope(out[pos])

\* C20 as stated: every if, with or without a final else, every match and
\* every loop is bound to a fresh temporary, and the rest of the block goes
\* to the maybe-trailing decision with the scope and target unchanged.
C20_AsStated ==
  [][(IfRead \/ MatchRead \/ LoopRead) /\ status' # "failed" => Decision]_vars

\* An if with a final else, a match and a loop are bound to the temporary
\* and what follows is what the maybe-trailing decision makes of the rest;
\* an if without a final else is a statement and the rest follows it.
C20_Shape ==
  status = "done" /\ ast # <<>> /\ ast[1].k \in {"if", "match", "loop"}
    => Body = IF IsTemp(ast[1])
              THEN <<"{", "let", "_tmp", "=">> \o Construct(ast[1]) \o <<";">>
                     \o AfterTmp(Rest(ast, 1), <<TargetName>>) \o <<"}">>
              ELSE <<"{">> \o Construct(ast[1])
                     \o Expected(Rest(ast, 1), <<TargetName>>) \o <<"}">>

C20_Step ==
  /\ ((IfRead /\ HasElse) \/ MatchRead \/ LoopRead) /\ status' # "failed" => Decision
  /\ IfRead /\ ~HasElse /\ status' # "failed"
       => /\ out'[pos + 1] = Tok("if")
          /\ Handed = Impl(Target(out[pos]), Scope(out[pos]), "empty", <<>>,
                           Input(out[pos]))

\* C20, amended: every if with a final else, every match and every loop is
\* bound to a fresh temporary, and the rest of the block goes to the
\* maybe-trailing decision with the scope and target unchanged; an if
\* without a final else is emitted as a statement, with no temporary, and
\* the rest of the block is parsed in state empty, same scope and target.
C20_Temporary == []C20_Shape /\ [][C20_Step]_vars

C20_Witness ==
  /\ status = "done"
  /\ Len(ast) = 2 /\ ast[1].k = "if" /\ ~IsTemp(ast[1]) /\ Len(ast[1].bs) = 2
  /\ ast[2].k = "ct"
  /\ Value = Fold(<<TargetName>>, ast[2].ch)
  /\ {520, 552} \subseteq fired

-----------------------------------------------------------------------------
(* C21 *)

\* An if without a final else that is the last item of block b.
EndsInIf(b) == b # <<>> /\ Last(b).k = "if" /\ ~IsTemp(Last(b))

\* The words `else if` among the tokens ts, counted at the top level.
RECURSIVE ElseIfCount(_)
ElseIfCount(ts) ==
  IF Len(ts) < 2 THEN 0
  ELSE (IF IsTok(ts[1], "else") /\ IsTok(ts[2], "if") THEN 1 ELSE 0)
         + ElseIfCount(Rest(ts, 1))

\* Alone in the Root block the statement is followed by the target; alone
\* in a braced block, by unit. The branches come in source order and every
\* body is a block of its own, ending in unit.
C21_Shape ==
  /\ status = "done" /\ Len(ast) = 1 /\ EndsInIf(ast)
       => /\ Body = <<"{">> \o Branches(ast[1], 1) \o <<TargetName, "}">>
          /\ Value = <<TargetName>>
  /\ status = "done" /\ OneBlock /\ EndsInIf(Inner)
       => /\ Body = Expected(SubSeq(Inner, 1, Len(Inner) - 1),
                             <<"{">> \o Branches(Last(Inner), 1) \o UnitText
                               \o <<"}">>)
          /\ Value = <<"(", ")">>

\* The step that ends the if: one `else if` per branch read after the
\* first, every body a block, and the input left goes on in state empty.
C21_Step ==
  IfRead /\ ~HasElse /\ status' # "failed"
    => /\ ElseIfCount(SubSeq(out', pos, Len(out') - (Len(out) - pos)))
            = Len(Mid(out[pos], 3))
       /\ State(Handed) = "empty" /\ Input(Handed) = Input(out[pos])
       /\ \A j \in pos..(Len(out') - (Len(out) - pos) - 2) :
            out'[j].k = "call" => Scope(out'[j]) = Tok("block")

\* C21: an if / else if sequence with no final else is emitted as a
\* statement, its branches in source order and each body expanded as a
\* block of its own; what follows is parsed in state empty. Last in the Root
\* block it leaves the target as the result, last in a braced block unit.
C21_Statement == []C21_Shape /\ [][C21_Step]_vars

C21_Witness ==
  /\ status = "done"
  /\ Len(ast) = 1 /\ EndsInIf(ast) /\ Len(ast[1].bs) = 2
  /\ Value = <<TargetName>>
  /\ 552 \in fired

-----------------------------------------------------------------------------
(* C22 *)

\* The arms of match m that are chains written without braces.
ChainArms(m) == {a \in 1..Len(m.bs) : m.x[a] \notin Braced /\ m.bs[a][1].k = "ct"}

\* A call with two generic arguments, `.conv::<T, U>(e, e2)`, in a chain arm.
TwoGenerics(m) == \E a \in ChainArms(m) : \E j \in 1..Len(m.bs[a][1].ch) :
                    m.bs[a][1].ch[j] = "conv"

\* Chain arms whose calls name at most one generic argument are emitted as
\* the braced arm is.
C22_OneGeneric ==
  /\ ast # <<>> /\ ast[1].k = "match" /\ ChainArms(ast[1]) # {}
  /\ ~TwoGenerics(ast[1])
  => /\ status # "failed"
     /\ status = "done" => Body = Expected(ast, <<TargetName>>)

\* C22: a match arm that is a chain, `p => .c,` or a last `p => .c`, is
\* emitted as the arm `p => { .c }` is, for every chain the chain rules of a
\* block accept, calls with several generic arguments `::<T, U>` included:
\* the match is accepted and its arms are the braced arms.
C22_ChainArm ==
  ast # <<>> /\ ast[1].k = "match" /\ ChainArms(ast[1]) # {}
  => /\ status # "failed"
     /\ status = "done" => Body = Expected(ast, <<TargetName>>)

-----------------------------------------------------------------------------
(* C23 *)

\* The statements of block b each with the tokens it is written with, the
\* terminating `;` of an ordinary statement `e;` included.
RECURSIVE Verbatim(_, _)
Verbatim(b, end) ==
  IF b = <<>> THEN end
  ELSE IF b[1].k = "st"
  THEN <<"{", "e", ";">> \o Verbatim(Rest(b, 1), end) \o <<"}">>
  ELSE IF b[1].k \in {"ct", "ex", "exc"} THEN Expected(b, end)
  ELSE SubSeq(Expected(<<b[1]>>, <<>>), 1, Len(Expected(<<b[1]>>, <<>>)) - 1)
         \o Verbatim(Rest(b, 1), end) \o <<"}">>

\* Blocks of chain statements, statements `e;`, lone `;` and a last chain
\* or expression.
Sequential(b) == AllOf(b, {"cs", "st", "semi", "ct", "ex", "exc"})

\* The statements come out in source order, each once; of a statement `e;`
\* the statement `e` comes out and its `;` does not.
C23_Order ==
  status = "done" /\ Sequential(ast) => Body = Expected(ast, <<TargetName>>)

\* C23: the statements of a block are emitted in source order, each once,
\* and an ordinary statement that ends in `;` is emitted token for token as
\* it is written.
C23_Unchanged ==
  status = "done" /\ Sequential(ast) => Body = Verbatim(ast, <<TargetName>>)

-----------------------------------------------------------------------------
(* C24 *)

\* The pending using_impl! invocations among the tokens ts, by position.
PendingIn(ts) == {j \in 1..Len(ts) : ts[j].k = "call" /\ ts[j].v = "using_impl"}

\* The tokens ts are what is left of the top-level statements of the
\* invocation: a suffix of them, after at most one tree that is being read.
EndOf(ts, all) == Len(ts) <= Len(all) /\ ts = Rest(all, Len(all) - Len(ts))

OfTopLevel(ts) ==
  \/ EndOf(ts, RenderBody(ast))
  \/ ts # <<>> /\ EndOf(Rest(ts, 1), RenderBody(ast))

\* At most one pending invocation has the tag root: the last one, and its
\* input is what is left of the top-level statements.
C24_Root ==
  ~HasInner(ast)
    => \A j \in PendingIn(out) :
         \/ Scope(out[j]) = Tok("block")
         \/ /\ Scope(out[j]) = Tok("root")
            /\ \A n \in PendingIn(out) : n <= j
            /\ OfTopLevel(Input(out[j]))

\* The end of what the rule that has rewritten out[pos] put in its place.
EmittedEnd == Len(out') - (Len(out) - pos)

\* out[pos] holds one braced block and nothing more: what the rule emits is
\* the body of that block and there is no continuation.
OnlyBlock ==
  /\ pc = "empty" /\ Len(Input(out[pos])) = 1 /\ IsBrace(Input(out[pos])[1])

\* Of the invocations a rule emits the last is the continuation and has the
\* scope of the invocation rewritten; all before it are bodies and have the
\* tag block, and so has the body of a braced block that ends its block.
C24_Step ==
  ~HasInner(ast) /\ pc # "using" /\ status' # "failed"
    => \A j \in pos..EmittedEnd :
         j \in PendingIn(out')
           => Scope(out'[j]) =
                IF (\A n \in pos..EmittedEnd : n \in PendingIn(out') => n <= j)
                     /\ ~OnlyBlock
                THEN Scope(out[pos]) ELSE Tok("block")

\* C24: the tag root is carried only by the continuation of the top-level
\* statements of an invocation; the body of every braced block, let
\* right-hand side, if/else branch, match arm, loop, while and for is
\* expanded with the tag block, and every continuation keeps the scope of
\* the block it belongs to.
C24_Scope == []C24_Root /\ [][C24_Step]_vars

C24_Witness ==
  /\ status = "running" /\ ~HasInner(ast)
  /\ 534 \in fired
  /\ Cardinality(PendingIn(out)) >= 3
  /\ \E j \in PendingIn(out) :
       /\ Scope(out[j]) = Tok("root")
       /\ \A n \in PendingIn(out) \ {j} : n < j /\ Scope(out[n]) = Tok("block")

-----------------------------------------------------------------------------
(* C25 *)

\* Nothing is left to expand.
Expanded == \A j \in 1..Len(out) : out[j].k # "call" /\ ~HasCall(out[j])

\* The expansion has ended: completely, or in a failure.
Ended == status \in {"done", "failed"}

\* The macros and the parser states, one action of Next for each.
States ==
  {"using", "maybe_trailing_exp", "empty", "in_exp", "in_let", "in_let_exp", "in_if",
   "in_if_next", "in_match", "in_match_body", "in_match_body_in_exp", "in_while",
   "in_for"}

\* C25: every expansion terminates: it reaches a complete expansion, with no
\* invocation left in it, or a failure, where no rule applies; until then
\* there is a pending invocation for a rule to rewrite, having ended it
\* stays as it is, and it never rewrites forever.
C25_Terminates ==
  /\ <>Ended
  /\ [](status = "done" => Expanded)
  /\ [](status = "running" => pos \in 1..Len(out) /\ out[pos].k = "call"
                                /\ pc = StateOf(out[pos]) /\ pc \in States)
  /\ [][Ended => UNCHANGED vars]_vars

C25_Witness ==
  /\ status = "done" /\ Expanded
  /\ Cardinality(fired) >= 12

====
